---- MODULE Spec2Model ----
(***************************************************************************)
(* Stale-first block replay proxy: the stale-block catalog loader, the     *)
(* RPC-backed chain view with its four caches, and the P2P handlers        *)
(* on_getheaders / on_getdata of HistoricalReorgProxy with the served-     *)
(* block ledger.                                                           *)
(*                                                                         *)
(* Hashes are Python ints (hash_int); the RPC side and the file names use  *)
(* 64-character lowercase hex strings, modelled as sequences of character  *)
(* codes.  None is modelled by the integer -1 (heights are >= 0).          *)
(*                                                                         *)
(* HistoricalReorgProxy.getdata_requests, a log of the requested hashes    *)
(* that no handler reads, is left out.  A handler is one atomic step; an   *)
(* exception ends it and keeps the assignments made before it.             *)
(***************************************************************************)
EXTENDS Integers, Sequences, FiniteSets, TLC

VARIABLES
    pc,                      \* "start" | "running" | "load_failed"
    dir,                     \* the stale-blocks directory: a set of files
    upstream_tip,            \* the upstream node's best height (rpc.getblockcount)
    tip_limit,               \* the height the upstream chain grows to at most
    peer_hashes,             \* hashes the remote peer may name in its requests
    stale_blocks,            \* HistoricalReorgProxy.stale_blocks
    stale_by_parent,         \* HistoricalReorgProxy.stale_by_parent
    stale_by_hash,           \* HistoricalReorgProxy.stale_by_hash
    max_height,              \* HistoricalReorgProxy.max_height (None or int)
    served_stale_blocks,     \* HistoricalReorgProxy.served_stale_blocks
    served_blocks,           \* HistoricalReorgProxy.served_blocks, the ledger
    active_height_by_hash,   \* RPCChainView._active_height_by_hash
    block_hash_by_height,    \* RPCChainView._block_hash_by_height
    header_by_hash,          \* RPCChainView._header_by_hash
    block_by_hash,           \* RPCChainView._block_by_hash
    handled,                 \* the handler run by the last step, "" if none
    fork,                    \* on_getheaders' fork_hash, fork_height of the last step
    sent,                    \* messages sent (send_without_ping) by the last step
    raised,                  \* exception that ended the last step, "" if none
    conn2,                   \* a second HistoricalReorgProxy over the same catalog
    upstream_ok,             \* whether the upstream node answers RPC calls
    target,                  \* the node under sync on the other end of the connection
    args,                    \* main: the command line options read at shutdown
    update_tip_events,       \* main: the UpdateTip events of the target's debug.log
    served_stale,            \* main: the items handed to validate_reorgs_from_events
    summary,                 \* main: what validate_reorgs_from_events returned
    exit_code                \* main: the value returned

vars == <<pc, dir, upstream_tip, tip_limit, peer_hashes, stale_blocks, stale_by_parent,
          stale_by_hash, max_height, served_stale_blocks, served_blocks,
          active_height_by_hash, block_hash_by_height, header_by_hash,
          block_by_hash, handled, fork, sent, raised, conn2, upstream_ok,
          target, args, update_tip_events, served_stale, summary, exit_code>>

\* the locals of main's shutdown, untouched while the proxy serves
main_vars == <<args, update_tip_events, served_stale, summary, exit_code>>

None == -1

(***************************************************************************)
(* Bounds of the model.                                                    *)
(***************************************************************************)
MaxLedger == 2      \* handlers run while the ledger holds fewer entries
MaxTip == 3         \* the upstream tip grows up to this height
MaxLocator == 2     \* longest locator of a GetHeaders
MaxInv == 2         \* longest inventory of a GetData
WalkTail == 2       \* passes of a long walk taken one by one, up to the cap

(***************************************************************************)
(* Protocol constants imported from test_framework.messages.               *)
(***************************************************************************)
MAX_HEADERS_RESULTS == 2000
MSG_TX == 1
MSG_BLOCK == 2
MSG_WITNESS_FLAG == 1073741824
MSG_TYPE_MASK == 1073741823
HEX_WIDTH == 64

EmptyMap == [k \in {} |-> None]

Min(a, b) == IF a < b THEN a ELSE b

(***************************************************************************)
(* Character codes and the hex conversions.                                *)
(***************************************************************************)
ChDash == 45
ChDotBin == <<46, 98, 105, 110>>

IsDigit(c) == c >= 48 /\ c <= 57
IsHexLower(c) == IsDigit(c) \/ (c >= 97 /\ c <= 102)

HexChar(d) == IF d < 10 THEN 48 + d ELSE 97 + (d - 10)

HexVal(c) ==
    IF IsDigit(c) THEN c - 48
    ELSE IF c >= 97 /\ c <= 102 THEN c - 97 + 10
    ELSE c - 65 + 10

RECURSIVE HexDigits(_, _)
HexDigits(n, w) ==
    IF w = 0 /\ n = 0 THEN <<>>
    ELSE Append(HexDigits(n \div 16, IF w = 0 THEN 0 ELSE w - 1), HexChar(n % 16))

\* The hashes of the model lie in HashRange (those of the short chains, and
\* those met at the end of a walk on a chain of 2000 blocks); the two
\* conversions are tabulated over it once, and computed digit by digit
\* outside it.
HashRange == (0..63) \cup (2010..2020) \cup {3000}

HexTable == [n \in HashRange |-> HexDigits(n, HEX_WIDTH)]

\* f"{hash_int:064x}": lowercase hex, zero-padded to 64 characters.
hash_int_to_hex(hash_int) ==
    IF hash_int \in HashRange THEN HexTable[hash_int] ELSE HexDigits(hash_int, HEX_WIDTH)

RECURSIVE ParseBase(_, _, _)
ParseBase(s, base, acc) ==
    IF s = <<>> THEN acc
    ELSE ParseBase(Tail(s), base, acc * base + HexVal(Head(s)))

ParseTable == [s \in {HexTable[n] : n \in HashRange} |-> ParseBase(s, 16, 0)]

\* int(hash_hex, 16)
hash_hex_to_int(hash_hex) ==
    IF hash_hex \in DOMAIN ParseTable THEN ParseTable[hash_hex]
    ELSE ParseBase(hash_hex, 16, 0)

\* int(match.group("height"))
DecToInt(s) == ParseBase(s, 10, 0)

RECURSIVE DecDigits(_)
DecDigits(n) ==
    IF n < 10 THEN <<48 + n>> ELSE Append(DecDigits(n \div 10), 48 + (n % 10))

(***************************************************************************)
(* STALE_BLOCK_FILE_RE = ^(?P<height>\d+)-(?P<hash>[0-9a-f]{64})\.bin$     *)
(* applied with fullmatch to a file name (a sequence of character codes).  *)
(***************************************************************************)
STALE_BLOCK_FILE_RE(name) ==
    LET n == Len(name) IN
    /\ n >= HEX_WIDTH + 6
    /\ SubSeq(name, n - 3, n) = ChDotBin
    /\ \A i \in (n - 3 - HEX_WIDTH)..(n - 4) : IsHexLower(name[i])
    /\ name[n - 4 - HEX_WIDTH] = ChDash
    /\ \A i \in 1..(n - 5 - HEX_WIDTH) : IsDigit(name[i])

MatchHeight(name) == SubSeq(name, 1, Len(name) - 5 - HEX_WIDTH)
MatchHash(name) == SubSeq(name, Len(name) - 3 - HEX_WIDTH, Len(name) - 4)

\* Path.glob("*.bin")
GlobBin(name) ==
    Len(name) >= 4 /\ SubSeq(name, Len(name) - 3, Len(name)) = ChDotBin

\* str order of two paths of one directory: code point by code point.
RECURSIVE PathLess(_, _)
PathLess(a, b) ==
    IF b = <<>> THEN FALSE
    ELSE IF a = <<>> THEN TRUE
    ELSE IF Head(a) # Head(b) THEN Head(a) < Head(b)
    ELSE PathLess(Tail(a), Tail(b))

\* sorted(Path(blocks_dir).glob("*.bin"))
RECURSIVE SortedPaths(_)
SortedPaths(files) ==
    IF files = {} THEN <<>>
    ELSE LET f == CHOOSE x \in files : \A y \in files : y = x \/ PathLess(x.name, y.name)
         IN <<f>> \o SortedPaths(files \ {f})

\* key=lambda rec: (rec.height, rec.hash_int)
RecLess(a, b) ==
    a.height < b.height \/ (a.height = b.height /\ a.hash_int < b.hash_int)

\* list.sort(key=...): stable insertion of rec into a sorted list
RECURSIVE InsertRec(_, _)
InsertRec(recs, rec) ==
    IF recs = <<>> THEN <<rec>>
    ELSE IF RecLess(rec, Head(recs)) THEN <<rec>> \o recs
    ELSE <<Head(recs)>> \o InsertRec(Tail(recs), rec)

\* a faulty variant of the sort below: the records stay in the order of the scan
SortRecsNot(recs) == recs

RECURSIVE SortRecs(_)
SortRecs(recs) ==
    IF recs = <<>> THEN <<>>
    ELSE InsertRec(SortRecs(SubSeq(recs, 1, Len(recs) - 1)), recs[Len(recs)])

\* The scan loop of load_stale_blocks_from_dir over the sorted paths.
RECURSIVE LoadScan(_, _)
LoadScan(paths, records) ==
    IF paths = <<>> THEN [exc |-> "", records |-> records]
    ELSE LET f == Head(paths) IN
         IF ~STALE_BLOCK_FILE_RE(f.name) THEN LoadScan(Tail(paths), records)
         ELSE IF hash_int_to_hex(f.block.hash_int) # MatchHash(f.name)
              THEN [exc |-> "ValueError", records |-> <<>>]
              ELSE LoadScan(Tail(paths),
                            Append(records,
                                   [height |-> DecToInt(MatchHeight(f.name)),
                                    hash_int |-> f.block.hash_int,
                                    prev_hash_int |-> f.block.hashPrevBlock]))

\* a faulty variant of load_stale_blocks_from_dir: a file whose content does
\* not hash to its name is skipped instead of failing the load
LoadSkippingMismatch(blocks_dir) ==
    LET scan == LoadScan(SortedPaths({f \in blocks_dir :
                    /\ GlobBin(f.name)
                    /\ STALE_BLOCK_FILE_RE(f.name) =>
                          hash_int_to_hex(f.block.hash_int) = MatchHash(f.name)}), <<>>)
    IN [exc |-> "", records |-> SortRecs(scan.records)]

load_stale_blocks_from_dir(blocks_dir) ==
    LET scan == LoadScan(SortedPaths({f \in blocks_dir : GlobBin(f.name)}), <<>>)
    IN IF scan.exc # "" THEN scan
       ELSE [exc |-> "", records |-> SortRecs(scan.records)]

\* a faulty variant of group_stale_blocks_by_parent: the lists are not sorted
GroupUnsorted(recs) ==
    [p \in {recs[i].prev_hash_int : i \in DOMAIN recs} |->
        SelectSeq(recs, LAMBDA r : r.prev_hash_int = p)]

\* group_stale_blocks_by_parent: the lists keep catalog order, then are sorted.
group_stale_blocks_by_parent(recs) ==
    [p \in {recs[i].prev_hash_int : i \in DOMAIN recs} |->
        SortRecs(SelectSeq(recs, LAMBDA r : r.prev_hash_int = p))]

\* {stale.hash_int: stale for stale in self.stale_blocks}: the last record wins
index_by_hash(recs) ==
    [h \in {recs[i].hash_int : i \in DOMAIN recs} |->
        LET last == CHOOSE i \in DOMAIN recs :
                      /\ recs[i].hash_int = h
                      /\ \A j \in DOMAIN recs : recs[j].hash_int = h => j <= i
        IN recs[last]]

(***************************************************************************)
(* The upstream node behind RPCChainView.rpc: an immutable canonical chain *)
(* whose tip may rise, plus blocks it has indexed off the active chain.    *)
(***************************************************************************)
ActiveHash(height) == 16 + height

UpstreamForkHashes == {40}

UpstreamBlock(height) ==
    [hash_int |-> ActiveHash(height),
     hashPrevBlock |-> IF height = 0 THEN 0 ELSE ActiveHash(height - 1)]

\* the height of the active block named hash_hex, None if there is none
UpstreamHeightOf(hash_hex) ==
    LET At(height) ==
            IF height >= 0 /\ height <= upstream_tip
                  /\ hash_int_to_hex(ActiveHash(height)) = hash_hex
            THEN height ELSE None
    IN At(hash_hex_to_int(hash_hex) - ActiveHash(0))

UpstreamIsFork(hash_hex) ==
    \E f \in UpstreamForkHashes : hash_int_to_hex(f) = hash_hex

\* rpc.getblockcount()
rpc_getblockcount == upstream_tip

\* the exception of an RPC call the upstream does not answer, "" when it does
Unreachable == IF upstream_ok THEN "" ELSE "ConnectionError"

\* rpc.getblockhash(height): raises for a height outside the active chain
rpc_getblockhash(height) ==
    IF ~upstream_ok THEN [exc |-> Unreachable, ret |-> <<>>]
    ELSE IF height >= 0 /\ height <= upstream_tip
    THEN [exc |-> "", ret |-> hash_int_to_hex(ActiveHash(height))]
    ELSE [exc |-> "JSONRPCException", ret |-> <<>>]

\* rpc.getblockheader(hash_hex): the verbose header, confirmations -1 off the
\* active chain; raises for a block the node does not have
rpc_getblockheader(hash_hex) ==
    LET Answer(height) ==
            IF height # None
            THEN [exc |-> "", height |-> height,
                  confirmations |-> upstream_tip - height + 1]
            ELSE IF UpstreamIsFork(hash_hex)
            THEN [exc |-> "", height |-> 1, confirmations |-> -1]
            ELSE [exc |-> "JSONRPCException", height |-> None, confirmations |-> -1]
    IN IF ~upstream_ok
       THEN [exc |-> Unreachable, height |-> None, confirmations |-> -1]
       ELSE Answer(UpstreamHeightOf(hash_hex))

\* rpc.getblockheader(hash_hex, False) / rpc.getblock(hash_hex, 0), deserialized
rpc_getblock(hash_hex) ==
    LET Answer(height) ==
            IF height # None
            THEN [exc |-> "", ret |-> UpstreamBlock(height)]
            ELSE IF UpstreamIsFork(hash_hex)
            THEN [exc |-> "", ret |-> [hash_int |-> hash_hex_to_int(hash_hex),
                                       hashPrevBlock |-> ActiveHash(0)]]
            ELSE [exc |-> "JSONRPCException",
                  ret |-> [hash_int |-> None, hashPrevBlock |-> None]]
    IN IF ~upstream_ok
       THEN [exc |-> Unreachable, ret |-> [hash_int |-> None, hashPrevBlock |-> None]]
       ELSE Answer(UpstreamHeightOf(hash_hex))

(***************************************************************************)
(* RPCChainView.  cv is the record of the four caches                      *)
(*   [ah |-> _active_height_by_hash, bh |-> _block_hash_by_height,         *)
(*    hdr |-> _header_by_hash, blk |-> _block_by_hash];                    *)
(* every method returns the caches after the call, its result and the      *)
(* exception it raised ("" if none).                                       *)
(***************************************************************************)
ChainView ==
    [ah |-> active_height_by_hash, bh |-> block_hash_by_height,
     hdr |-> header_by_hash, blk |-> block_by_hash]

\* a faulty variant of tip_height: once heights are cached, the highest of
\* them is taken for the tip
TipHeightFromCache ==
    IF DOMAIN block_hash_by_height = {} THEN rpc_getblockcount
    ELSE CHOOSE m \in DOMAIN block_hash_by_height :
             \A h \in DOMAIN block_hash_by_height : h <= m

tip_height == rpc_getblockcount

\* a faulty variant of get_block_hash: the answer of the upstream is not kept
GetBlockHashNoStore(cv, height) ==
    IF height \in DOMAIN cv.bh
    THEN [cv |-> cv, exc |-> "", ret |-> cv.bh[height]]
    ELSE LET Fetched(r) == [cv |-> cv, exc |-> r.exc, ret |-> r.ret]
         IN Fetched(rpc_getblockhash(height))

get_block_hash(cv, height) ==
    IF height \in DOMAIN cv.bh
    THEN [cv |-> cv, exc |-> "", ret |-> cv.bh[height]]
    ELSE LET Fetched(r) ==
                 IF r.exc # "" THEN [cv |-> cv, exc |-> r.exc, ret |-> <<>>]
                 ELSE [cv |-> [cv EXCEPT !.bh = (height :> r.ret) @@ cv.bh],
                       exc |-> "", ret |-> r.ret]
         IN Fetched(rpc_getblockhash(height))

\* a faulty variant of get_active_height: only heights are kept, None is not
GetActiveHeightNoNegative(cv, block_hash_int) ==
    IF block_hash_int \in DOMAIN cv.ah
    THEN [cv |-> cv, exc |-> "", ret |-> cv.ah[block_hash_int]]
    ELSE LET Height(header) ==
                 IF header.exc # "" THEN None
                 ELSE IF header.confirmations >= 0 THEN header.height
                 ELSE None
             Cached(height) ==
                 IF height = None THEN [cv |-> cv, exc |-> "", ret |-> None]
                 ELSE [cv |-> [cv EXCEPT !.ah = (block_hash_int :> height) @@ cv.ah],
                       exc |-> "", ret |-> height]
         IN Cached(Height(rpc_getblockheader(hash_int_to_hex(block_hash_int))))

get_active_height(cv, block_hash_int) ==
    IF block_hash_int \in DOMAIN cv.ah
    THEN [cv |-> cv, exc |-> "", ret |-> cv.ah[block_hash_int]]
    ELSE LET Height(header) ==
                 IF header.exc # "" THEN None
                 ELSE IF header.confirmations >= 0 THEN header.height
                 ELSE None
             Cached(height) ==
                 [cv |-> [cv EXCEPT !.ah = (block_hash_int :> height) @@ cv.ah],
                  exc |-> "", ret |-> height]
         IN Cached(Height(rpc_getblockheader(hash_int_to_hex(block_hash_int))))

get_header(cv, block_hash_int) ==
    IF block_hash_int \in DOMAIN cv.hdr
    THEN [cv |-> cv, exc |-> "", ret |-> cv.hdr[block_hash_int]]
    ELSE LET Fetched(r) ==
                 IF r.exc # "" THEN [cv |-> cv, exc |-> r.exc, ret |-> r.ret]
                 ELSE [cv |-> [cv EXCEPT !.hdr = (block_hash_int :> r.ret) @@ cv.hdr],
                       exc |-> "", ret |-> r.ret]
         IN Fetched(rpc_getblock(hash_int_to_hex(block_hash_int)))

get_block(cv, block_hash_int) ==
    IF block_hash_int \in DOMAIN cv.blk
    THEN [cv |-> cv, exc |-> "", ret |-> cv.blk[block_hash_int]]
    ELSE LET Fetched(r) ==
                 IF r.exc # "" THEN [cv |-> cv, exc |-> r.exc, ret |-> r.ret]
                 ELSE [cv |-> [cv EXCEPT !.blk = (block_hash_int :> r.ret) @@ cv.blk],
                       exc |-> "", ret |-> r.ret]
         IN Fetched(rpc_getblock(hash_int_to_hex(block_hash_int)))

(***************************************************************************)
(* HistoricalReorgProxy.                                                   *)
(***************************************************************************)
\* CBlockHeader(stale.block) / stale.block of a catalog record
StaleBlock(stale) ==
    [hash_int |-> stale.hash_int, hashPrevBlock |-> stale.prev_hash_int]

msg_headers(headers) == [command |-> "headers", headers |-> headers]
msg_block(block) == [command |-> "block", block |-> block]
msg_inv(inv) == [command |-> "inv", inv |-> inv]
CInv(type, hash) == [type |-> type, hash |-> hash]

\* the for loop of _find_active_fork from locator_hashes[i], then the fallback;
\* via names the return statement taken, index the locator position returned
RECURSIVE FindActiveForkFrom(_, _, _)
FindActiveForkFrom(cv, locator_hashes, i) ==
    IF i > Len(locator_hashes)
    THEN LET Genesis(g) ==
                 IF g.exc # ""
                 THEN [cv |-> g.cv, exc |-> g.exc, hash |-> None, height |-> None,
                       via |-> "genesis", index |-> 0]
                 ELSE [cv |-> g.cv, exc |-> "", hash |-> hash_hex_to_int(g.ret),
                       height |-> 0, via |-> "genesis", index |-> 0]
         IN Genesis(get_block_hash(cv, 0))
    ELSE LET Looked(r) ==
                 IF r.ret # None
                 THEN [cv |-> r.cv, exc |-> "", hash |-> locator_hashes[i],
                       height |-> r.ret, via |-> "locator", index |-> i]
                 ELSE FindActiveForkFrom(r.cv, locator_hashes, i + 1)
         IN Looked(get_active_height(cv, locator_hashes[i]))

\* a faulty variant of _find_active_fork: the locator is scanned from its end
FindActiveForkReversed(cv, locator_hashes) ==
    FindActiveForkFrom(cv, [k \in 1..Len(locator_hashes) |->
                               locator_hashes[Len(locator_hashes) + 1 - k]], 1)

\* a faulty variant of _find_active_fork: a locator none of whose hashes is
\* active is an error instead of a fallback to genesis
FindActiveForkStrict(cv, locator_hashes) ==
    LET f == FindActiveForkFrom(cv, locator_hashes, 1) IN
    IF f.via = "genesis" /\ locator_hashes # <<>>
    THEN [f EXCEPT !.exc = "ValueError"]
    ELSE f

\* a faulty variant of the search below: the fork height is one too high
FindActiveForkAbove(cv, locator_hashes) ==
    [FindActiveForkFrom(cv, locator_hashes, 1) EXCEPT !.height = @ + 1]

_find_active_fork(cv, locator_hashes) == FindActiveForkFrom(cv, locator_hashes, 1)

\* a faulty variant of the filter below: served blocks stay candidates
StaleCandidateOkAgain(stale, hash_stop) ==
    /\ ~(max_height # None /\ stale.height > max_height)
    /\ ~(hash_stop # 0 /\ hash_stop # stale.hash_int)

\* the filter of the loop of _next_stale_candidate
StaleCandidateOk(stale, hash_stop) ==
    /\ stale.hash_int \notin served_stale_blocks
    /\ ~(max_height # None /\ stale.height > max_height)
    /\ ~(hash_stop # 0 /\ hash_stop # stale.hash_int)

\* a faulty variant of the loop below: it returns after the first record of
\* the list, candidate or not
NextStaleCandidateFirstOnly(parent_hash, hash_stop) ==
    LET First(stale_list) ==
            IF stale_list # <<>> /\ StaleCandidateOk(Head(stale_list), hash_stop)
            THEN <<Head(stale_list)>> ELSE <<>>
    IN First(IF parent_hash \in DOMAIN stale_by_parent
             THEN stale_by_parent[parent_hash] ELSE <<>>)

\* the first candidate of stale_by_parent.get(parent_hash, []), <<>> for None
_next_stale_candidate(parent_hash, hash_stop) ==
    LET stale_list == IF parent_hash \in DOMAIN stale_by_parent
                      THEN stale_by_parent[parent_hash] ELSE <<>>
        ok == SelectSeq(stale_list, LAMBDA st : StaleCandidateOk(st, hash_stop))
    IN IF ok = <<>> THEN <<>> ELSE <<Head(ok)>>

\* a faulty variant of the test below: one header more than the cap
RoomOneMore(headers) == Len(headers) <= MAX_HEADERS_RESULTS

\* len(headers) < MAX_HEADERS_RESULTS
Room(headers) == Len(headers) < MAX_HEADERS_RESULTS

\* a faulty variant of the test below: hash_stop never ends the batch
StopNever(block_hash_int, hash_stop) == FALSE

\* if hash_stop and block_hash_int == hash_stop: break
StopAt(block_hash_int, hash_stop) == hash_stop # 0 /\ block_hash_int = hash_stop

\* a pass of the while loop has looked parent_hash up in stale_by_parent
Looked(parent_hash, w) == [w EXCEPT !.looked = @ \cup {parent_hash}]

\* a faulty variant of the walk below: no break after the stale header, the
\* walk goes on from the stale block
RECURSIVE HeadersWalkPastStale(_, _, _, _, _, _)
HeadersWalkPastStale(cv, headers, height, parent_hash, tip, hash_stop) ==
    IF ~(height <= tip /\ Len(headers) < MAX_HEADERS_RESULTS)
    THEN [cv |-> cv, exc |-> "", headers |-> headers, looked |-> {}]
    ELSE LET Extend(block_hash_int, hd) ==
                 IF hd.exc # ""
                 THEN [cv |-> hd.cv, exc |-> hd.exc, headers |-> headers, looked |-> {}]
                 ELSE HeadersWalkPastStale(hd.cv, Append(headers, hd.ret), height + 1,
                                           block_hash_int, tip, hash_stop)
             Canonical(bh) ==
                 IF bh.exc # "" THEN [cv |-> bh.cv, exc |-> bh.exc, headers |-> headers, looked |-> {}]
                 ELSE Extend(hash_hex_to_int(bh.ret),
                             get_header(bh.cv, hash_hex_to_int(bh.ret)))
             Step(stale) ==
                 IF stale # <<>>
                 THEN HeadersWalkPastStale(cv, Append(headers, StaleBlock(stale[1])),
                                           height + 1, stale[1].hash_int, tip, hash_stop)
                 ELSE Canonical(get_block_hash(cv, height))
         IN Looked(parent_hash, Step(_next_stale_candidate(parent_hash, hash_stop)))

\* the while loop of on_getheaders: Step takes the stale candidate, Canonical
\* the result of get_block_hash(height), Extend the header of that block
RECURSIVE HeadersWalk(_, _, _, _, _, _)
HeadersWalk(cv, headers, height, parent_hash, tip, hash_stop) ==
    IF ~(height <= tip /\ Room(headers))
    THEN [cv |-> cv, exc |-> "", headers |-> headers, looked |-> {}]
    ELSE LET Extend(block_hash_int, hd) ==
                 IF hd.exc # ""
                 THEN [cv |-> hd.cv, exc |-> hd.exc, headers |-> headers, looked |-> {}]
                 ELSE IF StopAt(block_hash_int, hash_stop)
                 THEN [cv |-> hd.cv, exc |-> "", headers |-> Append(headers, hd.ret),
                       looked |-> {}]
                 ELSE HeadersWalk(hd.cv, Append(headers, hd.ret), height + 1,
                                  block_hash_int, tip, hash_stop)
             Fetch(cv1, block_hash_int) ==
                 Extend(block_hash_int, get_header(cv1, block_hash_int))
             Canonical(bh) ==
                 IF bh.exc # "" THEN [cv |-> bh.cv, exc |-> bh.exc, headers |-> headers, looked |-> {}]
                 ELSE Fetch(bh.cv, hash_hex_to_int(bh.ret))
             Step(stale) ==
                 IF stale # <<>>
                 THEN [cv |-> cv, exc |-> "",
                       headers |-> Append(headers, StaleBlock(stale[1])), looked |-> {}]
                 ELSE Canonical(get_block_hash(cv, height))
         IN Looked(parent_hash, Step(_next_stale_candidate(parent_hash, hash_stop)))

\* faulty variants of the effective tip: None taken as a height, without the
\* ceiling, and one too high
EffectiveTipNoneAsBound == Min(tip_height, max_height)

EffectiveTipNoCeiling == tip_height

EffectiveTipPastTip ==
    (IF max_height # None THEN Min(tip_height, max_height) ELSE tip_height) + 1

\* min(tip_height(), max_height) when max_height is set
EffectiveTip == IF max_height # None THEN Min(tip_height, max_height) ELSE tip_height

\* on_getheaders: the caches after the call, the messages sent, the exception,
\* the handler's fork_hash, fork_height and the parents it looked up
GetHeadersResult(locator_hashes, hash_stop) ==
    LET Reply(f, tip) ==
            LET found == [hash |-> f.hash, height |-> f.height, via |-> f.via,
                          index |-> f.index]
                Walked(w) ==
                    IF w.exc # ""
                    THEN [cv |-> w.cv, exc |-> w.exc, sent |-> <<>>, fork |-> found,
                          looked |-> w.looked]
                    ELSE [cv |-> w.cv, exc |-> "", sent |-> <<msg_headers(w.headers)>>,
                          fork |-> found, looked |-> w.looked]
            IN IF f.exc # ""
               THEN [cv |-> f.cv, exc |-> f.exc, sent |-> <<>>, fork |-> found,
                     looked |-> {}]
               ELSE IF Unreachable # ""       \* tip_height() raises
               THEN [cv |-> f.cv, exc |-> Unreachable, sent |-> <<>>, fork |-> found,
                     looked |-> {}]
               ELSE IF f.height + 1 > tip
               THEN [cv |-> f.cv, exc |-> "", sent |-> <<msg_headers(<<>>)>>,
                     fork |-> found, looked |-> {}]
               ELSE Walked(HeadersWalk(f.cv, <<>>, f.height + 1, f.hash, tip, hash_stop))
    IN Reply(_find_active_fork(ChainView, locator_hashes), EffectiveTip)

\* the canonical headers of the heights from .. to
CanonicalRun(from, to) == [k \in 1..(to - from + 1) |-> UpstreamBlock(from + k - 1)]

\* The first `done` passes of the while loop are quiet when each appends the
\* canonical header and goes on: no candidate hangs on the parents met, the
\* heights are within the tip, hash_stop is not among the hashes appended.
QuietPasses(fork_height, tip, hash_stop, done) ==
    /\ fork_height + done <= tip
    /\ {h \in fork_height..(fork_height + done - 1) :
            _next_stale_candidate(ActiveHash(h), hash_stop) # <<>>} = {}
    /\ ~(hash_stop # 0 /\ hash_stop - ActiveHash(0) \in (fork_height + 1)..(fork_height + done))

\* on_getheaders on a long chain, the while loop taken up after `done` quiet
\* passes: headers holds the canonical headers appended so far, height and
\* parent_hash are those of the next pass.  The caches of the skipped passes
\* are not filled in.
GetHeadersTailResult(locator_hashes, hash_stop, done) ==
    LET Reply(f, tip) ==
            LET found == [hash |-> f.hash, height |-> f.height, via |-> f.via,
                          index |-> f.index]
                Walked(w) ==
                    [cv |-> w.cv, exc |-> w.exc, fork |-> found,
                     sent |-> IF w.exc # "" THEN <<>> ELSE <<msg_headers(w.headers)>>,
                     looked |-> w.looked \cup
                         {ActiveHash(h) : h \in f.height..(f.height + done - 1)}]
            IN Walked(HeadersWalk(f.cv, CanonicalRun(f.height + 1, f.height + done),
                                  f.height + 1 + done, ActiveHash(f.height + done),
                                  tip, hash_stop))
    IN Reply(_find_active_fork(ChainView, locator_hashes), EffectiveTip)

\* a faulty variant of the append below: the entry goes to the front
LedgerPrepend(ledger, entry) == <<entry>> \o ledger

\* self.served_blocks.append(entry)
LedgerAppend(ledger, entry) == Append(ledger, entry)

\* faulty variants of the marking below: the blocks served before are
\* forgotten, the block served is not remembered
MarkServedAlone(served, hash_int) == {hash_int}

MarkServedNot(served, hash_int) == served

\* served_stale_blocks.add(stale.hash_int)
MarkServed(served, hash_int) == served \cup {hash_int}

\* a faulty variant of the test below: the block at the tip is not announced
NextBelowTip(next_height, tip) == next_height < tip

\* if next_height <= tip_height
NextWithinTip(next_height, tip) == next_height <= tip

\* on_getdata, the branch of a catalog hash: record, send, announce the next
\* active block when there is one under the effective tip
ServeStale(st, stale) ==
    LET st1 == [st EXCEPT
                   !.served = MarkServed(@, stale.hash_int),
                   !.ledger = LedgerAppend(@, <<"stale", stale.height, stale.hash_int>>),
                   !.sent = Append(@, msg_block(StaleBlock(stale)))]
        Announce(nh) ==
            IF nh.exc # "" THEN [st1 EXCEPT !.cv = nh.cv, !.exc = nh.exc]
            ELSE [st1 EXCEPT
                     !.cv = nh.cv,
                     !.sent = Append(@, msg_inv(<<CInv(MSG_BLOCK,
                                                      hash_hex_to_int(nh.ret))>>))]
    IN IF Unreachable # ""       \* tip_height() raises
       THEN [st1 EXCEPT !.exc = Unreachable]
       ELSE IF NextWithinTip(stale.height + 1, EffectiveTip)
       THEN Announce(get_block_hash(st1.cv, stale.height + 1))
       ELSE st1

\* on_getdata, the branch of any other hash: record it as active, send the block
ServeActive(st, hash) ==
    LET Recorded(ah) ==
            LET st1 == [st EXCEPT !.cv = ah.cv,
                                  !.ledger = LedgerAppend(@, <<"active", ah.ret, hash>>)]
                Fetched(blk) ==
                    IF blk.exc # "" THEN [st1 EXCEPT !.cv = blk.cv, !.exc = blk.exc]
                    ELSE [st1 EXCEPT !.cv = blk.cv,
                                     !.sent = Append(@, msg_block(blk.ret))]
            IN Fetched(get_block(ah.cv, hash))
    IN Recorded(get_active_height(st.cv, hash))

\* a faulty variant of the test below: any type from MSG_BLOCK up is served
WantsBlockOrMore(type) == (type % (MSG_TYPE_MASK + 1)) >= MSG_BLOCK

\* (inv.type & MSG_TYPE_MASK) == MSG_BLOCK
WantsBlock(type) == (type % (MSG_TYPE_MASK + 1)) = MSG_BLOCK

\* one pass of the for loop of on_getdata, st the handler's state so far
GetDataEntry(st, inv) ==
    IF ~WantsBlock(inv.type) THEN st
    ELSE IF inv.hash \in DOMAIN stale_by_hash
    THEN ServeStale(st, stale_by_hash[inv.hash])
    ELSE ServeActive(st, inv.hash)

\* the for loop of on_getdata from message.inv[i]; an exception ends it
RECURSIVE GetDataLoop(_, _, _)
GetDataLoop(st, invs, i) ==
    IF i > Len(invs) \/ st.exc # "" THEN st
    ELSE GetDataLoop(GetDataEntry(st, invs[i]), invs, i + 1)

GetDataResult(invs) ==
    GetDataLoop([cv |-> ChainView, served |-> served_stale_blocks,
                 ledger |-> served_blocks, sent |-> <<>>, exc |-> ""], invs, 1)

(***************************************************************************)
(* Directories, peers and the initial states.                              *)
(***************************************************************************)
FileName(height, hash_hex) == DecDigits(height) \o <<ChDash>> \o hash_hex \o ChDotBin

\* a well-formed file <height>-<hash>.bin holding the block with that hash
StaleFile(height, hash_int, prev_hash_int) ==
    [name |-> FileName(height, hash_int_to_hex(hash_int)),
     block |-> [hash_int |-> hash_int, hashPrevBlock |-> prev_hash_int]]

\* a file whose name carries another hash than its content
CorruptFile(height, name_hash_int, hash_int, prev_hash_int) ==
    [name |-> FileName(height, hash_int_to_hex(name_hash_int)),
     block |-> [hash_int |-> hash_int, hashPrevBlock |-> prev_hash_int]]

\* a file whose name spells the hash in upper case: no match of the pattern
UpperFile(height, hash_int, prev_hash_int) ==
    [name |-> FileName(height,
                       [i \in 1..HEX_WIDTH |->
                           LET c == hash_int_to_hex(hash_int)[i]
                           IN IF c >= 97 THEN c - 32 ELSE c]),
     block |-> [hash_int |-> hash_int, hashPrevBlock |-> prev_hash_int]]

FileA == StaleFile(2, 33, ActiveHash(1))
FileB == StaleFile(2, 34, ActiveHash(1))
FileD == StaleFile(3, 36, ActiveHash(2))
FileEarlyBad == CorruptFile(1, 37, 38, ActiveHash(0))
FileLateBad == CorruptFile(3, 39, 41, ActiveHash(2))
FileUpper == UpperFile(2, 42, ActiveHash(1))
FileE2E == StaleFile(5, 53, ActiveHash(4))
\* a height of two digits: the name sorts before those of FileA..FileD
FileTen == StaleFile(10, 32, ActiveHash(1))
\* a name whose height is 0, holding a block without a parent
FileZero == StaleFile(0, 43, 0)

InvTypes == {MSG_TX, MSG_BLOCK, MSG_BLOCK + MSG_WITNESS_FLAG}

SeqsUpTo(S, n) == UNION {[1..k -> S] : k \in 0..n}

\* A scenario: the directory, the max_height argument, the upstream tip at
\* startup, the height the upstream grows to, and the hashes the peer names.
Scenario(files, max, tip, limit, hashes) ==
    [dir |-> files, max_height |-> max, tip |-> tip, limit |-> limit,
     hashes |-> hashes]

\* Two stale blocks, at height 2 and 3, under a ceiling of 2; the upstream
\* starts at height 2, so that ActiveHash(3) is at first unknown to it.
MainScenario(max) ==
    Scenario({FileA, FileD, FileUpper}, max, 2, MaxTip,
             {33, ActiveHash(2), ActiveHash(3)})

\* One stale block at height 5 on the active parent at height 4, upstream
\* tip 10, no ceiling.
E2EScenario ==
    Scenario({FileE2E}, None, 10, 11, {ActiveHash(4), 53, ActiveHash(5)})

FileUniverse ==
    {FileA, FileB, FileD, FileTen, FileZero, FileEarlyBad, FileLateBad, FileUpper}

NoFork == [hash |-> None, height |-> None, via |-> "", index |-> 0]

\* the per-instance state __init__ creates: served_stale_blocks, served_blocks,
\* and the messages the instance sent in the last step
NewConnection == [served |-> {}, ledger |-> <<>>, sent |-> <<>>]

\* the node under sync before it connects: wire holds its requests under way,
\* chain the headers it accepted (each with its path from genesis), best the
\* path of its best header, asked the blocks it requested, blocks those it got
NoTarget ==
    [on |-> FALSE, wire |-> <<>>, chain |-> EmptyMap, best |-> <<>>,
     asked |-> {}, blocks |-> {}]

\* main before its shutdown: no summary yet
NoSummary == [served_stale |-> None]

InitProxy ==
    /\ pc = "start"
    /\ stale_blocks = <<>>
    /\ stale_by_parent = EmptyMap
    /\ stale_by_hash = EmptyMap
    /\ served_stale_blocks = {}
    /\ served_blocks = <<>>
    /\ active_height_by_hash = EmptyMap
    /\ block_hash_by_height = EmptyMap
    /\ header_by_hash = EmptyMap
    /\ block_by_hash = EmptyMap
    /\ handled = ""
    /\ fork = NoFork
    /\ sent = <<>>
    /\ raised = ""
    /\ conn2 = NewConnection
    /\ upstream_ok = TRUE
    /\ target = NoTarget
    /\ update_tip_events = <<>>
    /\ served_stale = <<>>
    /\ summary = NoSummary
    /\ exit_code = 0

\* the options of a run without --target-debug-log
NoArgs == [target_debug_log |-> FALSE, allow_missing_reorgs |-> FALSE]

\* a run of main with the given options
InitRun(sc, options) ==
    /\ args = options
    /\ dir = sc.dir
    /\ max_height = sc.max_height
    /\ upstream_tip = sc.tip
    /\ tip_limit = sc.limit
    /\ peer_hashes = sc.hashes
    /\ InitProxy

InitScenario(sc) == InitRun(sc, NoArgs)

Init == \E max \in {None, 2} : InitScenario(MainScenario(max))

InitE2E == InitScenario(E2EScenario)

\* any directory over the file universe, for the loader alone
InitLoad == \E files \in SUBSET FileUniverse : InitScenario(Scenario(files, None, 2, 2, {}))

(***************************************************************************)
(* Actions.                                                                *)
(***************************************************************************)
\* main: load_stale_blocks_from_dir, then HistoricalReorgProxy.__init__
Startup ==
    /\ pc = "start"
    /\ LET r == load_stale_blocks_from_dir(dir) IN
       IF r.exc # ""
       THEN /\ pc' = "load_failed"
            /\ raised' = r.exc
            /\ UNCHANGED <<stale_blocks, stale_by_parent, stale_by_hash>>
       ELSE /\ pc' = "running"
            /\ raised' = ""
            /\ stale_blocks' = r.records
            /\ stale_by_parent' = group_stale_blocks_by_parent(r.records)
            /\ stale_by_hash' = index_by_hash(r.records)
    /\ UNCHANGED main_vars
    /\ UNCHANGED <<dir, upstream_tip, tip_limit, peer_hashes, max_height, served_stale_blocks,
                   served_blocks, active_height_by_hash, block_hash_by_height,
                   header_by_hash, block_by_hash, handled, fork, sent, conn2, upstream_ok,
                   target>>

\* a faulty variant of the lookup below: stale_by_parent[parent_hash], which
\* makes the defaultdict add an empty list for a parent it does not hold
ByParentAfterIndex(by_parent, looked) ==
    [p \in DOMAIN by_parent \cup looked |->
        IF p \in DOMAIN by_parent THEN by_parent[p] ELSE <<>>]

\* stale_by_parent after the lookups stale_by_parent.get(parent_hash, []) of a
\* walk: get adds no key to the defaultdict
ByParentAfterGet(by_parent, looked) == by_parent

SetChainView(cv) ==
    /\ active_height_by_hash' = cv.ah
    /\ block_hash_by_height' = cv.bh
    /\ header_by_hash' = cv.hdr
    /\ block_by_hash' = cv.blk

\* a faulty variant of the handler below: a stale block whose header is offered
\* is marked as served
on_getheaders_marking(locator_hashes, hash_stop) ==
    /\ pc = "running"
    /\ LET r == GetHeadersResult(locator_hashes, hash_stop) IN
       /\ SetChainView(r.cv)
       /\ sent' = r.sent
       /\ raised' = r.exc
       /\ fork' = r.fork
       /\ stale_by_parent' = ByParentAfterGet(stale_by_parent, r.looked)
       /\ served_stale_blocks' = served_stale_blocks \cup
              (DOMAIN stale_by_hash \cap
                  UNION {{r.sent[i].headers[k].hash_int : k \in DOMAIN r.sent[i].headers} :
                            i \in DOMAIN r.sent})
    /\ handled' = "getheaders"
    /\ UNCHANGED main_vars
    /\ UNCHANGED <<pc, dir, upstream_tip, tip_limit, peer_hashes, stale_blocks,
                   stale_by_hash, max_height, served_blocks, conn2, upstream_ok>>

on_getheaders(locator_hashes, hash_stop) ==
    /\ pc = "running"
    /\ LET r == GetHeadersResult(locator_hashes, hash_stop) IN
       /\ SetChainView(r.cv)
       /\ sent' = r.sent
       /\ raised' = r.exc
       /\ fork' = r.fork
       /\ stale_by_parent' = ByParentAfterGet(stale_by_parent, r.looked)
    /\ handled' = "getheaders"
    /\ UNCHANGED main_vars
    /\ UNCHANGED <<pc, dir, upstream_tip, tip_limit, peer_hashes, stale_blocks,
                   stale_by_hash, max_height, served_stale_blocks, served_blocks, conn2,
                   upstream_ok>>

on_getdata(invs) ==
    /\ pc = "running"
    /\ LET r == GetDataResult(invs) IN
       /\ SetChainView(r.cv)
       /\ served_stale_blocks' = r.served
       /\ served_blocks' = r.ledger
       /\ sent' = r.sent
       /\ raised' = r.exc
    /\ handled' = "getdata"
    /\ fork' = NoFork
    /\ UNCHANGED main_vars
    /\ UNCHANGED <<pc, dir, upstream_tip, tip_limit, peer_hashes, stale_blocks, stale_by_parent,
                   stale_by_hash, max_height, conn2, upstream_ok>>

\* the upstream node connects one more block
UpstreamGrow ==
    /\ upstream_tip < tip_limit
    /\ upstream_tip' = upstream_tip + 1
    /\ handled' = ""
    /\ fork' = NoFork
    /\ sent' = <<>>
    /\ raised' = ""
    /\ UNCHANGED main_vars
    /\ UNCHANGED <<pc, dir, tip_limit, peer_hashes, stale_blocks, stale_by_parent, stale_by_hash,
                   max_height, served_stale_blocks, served_blocks,
                   active_height_by_hash, block_hash_by_height, header_by_hash,
                   block_by_hash, conn2, upstream_ok, target>>

\* on_getdata of the second instance: its own served set and ledger, the
\* catalog and the chain view shared with the first
GetData2Result(invs) ==
    GetDataLoop([cv |-> ChainView, served |-> conn2.served,
                 ledger |-> conn2.ledger, sent |-> <<>>, exc |-> ""], invs, 1)

on_getdata2(invs) ==
    /\ pc = "running"
    /\ Len(conn2.ledger) + Len(invs) <= MaxLedger
    /\ LET r == GetData2Result(invs) IN
       /\ SetChainView(r.cv)
       /\ conn2' = [served |-> r.served, ledger |-> r.ledger, sent |-> r.sent]
       /\ raised' = r.exc
    /\ handled' = "getdata2"
    /\ fork' = NoFork
    /\ sent' = <<>>
    /\ UNCHANGED main_vars
    /\ UNCHANGED <<pc, dir, upstream_tip, tip_limit, peer_hashes, stale_blocks, stale_by_parent,
                   stale_by_hash, max_height, served_stale_blocks, served_blocks,
                   upstream_ok, target>>

\* a GetHeaders / GetData of a peer that names any of peer_hashes; the ledger
\* is kept within MaxLedger entries
GetHeaders ==
    \E locator_hashes \in SeqsUpTo(peer_hashes, MaxLocator),
       hash_stop \in {0} \cup peer_hashes :
        on_getheaders(locator_hashes, hash_stop) /\ UNCHANGED target

GetData ==
    \E invs \in SeqsUpTo([type : InvTypes, hash : peer_hashes], MaxInv) :
        /\ Len(served_blocks) + Len(invs) <= MaxLedger
        /\ on_getdata(invs)
        /\ UNCHANGED target

Next == Startup \/ GetHeaders \/ GetData \/ UpstreamGrow

Spec == Init /\ [][Next]_vars

SpecE2E == InitE2E /\ [][Next]_vars

\* the upstream node stops answering, and answers again
UpstreamDown ==
    /\ pc = "running" /\ upstream_ok
    /\ upstream_ok' = FALSE
    /\ handled' = "" /\ fork' = NoFork /\ sent' = <<>> /\ raised' = ""
    /\ UNCHANGED main_vars
    /\ UNCHANGED <<pc, dir, upstream_tip, tip_limit, peer_hashes, stale_blocks, stale_by_parent,
                   stale_by_hash, max_height, served_stale_blocks, served_blocks,
                   active_height_by_hash, block_hash_by_height, header_by_hash,
                   block_by_hash, conn2, target>>

UpstreamUp ==
    /\ pc = "running" /\ ~upstream_ok
    /\ upstream_ok' = TRUE
    /\ handled' = "" /\ fork' = NoFork /\ sent' = <<>> /\ raised' = ""
    /\ UNCHANGED main_vars
    /\ UNCHANGED <<pc, dir, upstream_tip, tip_limit, peer_hashes, stale_blocks, stale_by_parent,
                   stale_by_hash, max_height, served_stale_blocks, served_blocks,
                   active_height_by_hash, block_hash_by_height, header_by_hash,
                   block_by_hash, conn2, target>>

FailScenario == Scenario({FileA}, None, 2, 2, {33, ActiveHash(2)})

InitFail == InitScenario(FailScenario)

NextFail == Startup \/ GetHeaders \/ GetData \/ UpstreamDown \/ UpstreamUp

SpecFail == InitFail /\ [][NextFail]_vars

\* on_getheaders on a chain longer than a batch, see GetHeadersTailResult
on_getheaders_tail(locator_hashes, hash_stop, done) ==
    /\ pc = "running"
    /\ LET f == _find_active_fork(ChainView, locator_hashes) IN
       /\ f.exc = "" /\ Unreachable = ""
       /\ QuietPasses(f.height, EffectiveTip, hash_stop, done)
    /\ LET r == GetHeadersTailResult(locator_hashes, hash_stop, done) IN
       /\ SetChainView(r.cv)
       /\ sent' = r.sent
       /\ raised' = r.exc
       /\ fork' = r.fork
       /\ stale_by_parent' = ByParentAfterGet(stale_by_parent, r.looked)
    /\ handled' = "getheaders"
    /\ UNCHANGED main_vars
    /\ UNCHANGED <<pc, dir, upstream_tip, tip_limit, peer_hashes, stale_blocks,
                   stale_by_hash, max_height, served_stale_blocks, served_blocks, conn2,
                   upstream_ok, target>>

GetHeadersLong ==
    \E locator_hashes \in SeqsUpTo(peer_hashes, MaxLocator),
       hash_stop \in {0} \cup peer_hashes :
        on_getheaders_tail(locator_hashes, hash_stop, MAX_HEADERS_RESULTS - WalkTail)

\* a stale block at height 2000 on a chain of 2001 blocks that grows to 2002
FileCap == StaleFile(2000, 3000, ActiveHash(1999))

CapScenario == Scenario({FileCap}, None, 2001, 2002, {3000, ActiveHash(1)})

InitCap == InitScenario(CapScenario)

NextCap == Startup \/ GetHeadersLong \/ GetData \/ UpstreamGrow

SpecCap == InitCap /\ [][NextCap]_vars

\* two connections served by one process over one catalog
GetData2 ==
    \E invs \in SeqsUpTo([type : InvTypes, hash : peer_hashes], MaxInv) :
        on_getdata2(invs)

PairScenario == Scenario({FileA, FileB}, None, 2, 2, {33, 34})

InitConn == InitScenario(PairScenario)

NextConn == Startup \/ GetHeaders \/ GetData \/ GetData2

SpecConn == InitConn /\ [][NextConn]_vars

(***************************************************************************)
(* The node under sync, as the specification describes it: headers-first,  *)
(* it requests every block whose header it has received, and sends a new   *)
(* GetHeaders after each Headers batch and each Inv announcement.          *)
(***************************************************************************)
msg_getheaders(vHave, hashstop) ==
    [command |-> "getheaders", vHave |-> vHave, hashstop |-> hashstop]
msg_getdata(inv) == [command |-> "getdata", inv |-> inv]

\* the locator of a path: its hashes from the last back to genesis
Locator(path) == [k \in 1..Len(path) |-> path[Len(path) + 1 - k]]

\* a header is accepted when it is new and connects to a header accepted
\* before; the best header is the one with the longest path, the first
\* received among equals
Learn(t, header) ==
    LET Accept(path) ==
            [t EXCEPT !.chain = (header.hash_int :> path) @@ @,
                      !.best = IF Len(path) > Len(@) THEN path ELSE @]
    IN IF header.hashPrevBlock \in DOMAIN t.chain /\ header.hash_int \notin DOMAIN t.chain
       THEN Accept(Append(t.chain[header.hashPrevBlock], header.hash_int))
       ELSE t

RECURSIVE LearnAll(_, _, _)
LearnAll(t, headers, i) ==
    IF i > Len(headers) THEN t ELSE LearnAll(Learn(t, headers[i]), headers, i + 1)

\* the blocks of a batch to request: header accepted, block not yet requested
Wanted(t, headers) ==
    SelectSeq([k \in DOMAIN headers |-> headers[k].hash_int],
              LAMBDA h : h \in DOMAIN t.chain /\ h \notin t.asked)

BlockRequest(want) ==
    msg_getdata([k \in DOMAIN want |-> CInv(MSG_BLOCK + MSG_WITNESS_FLAG, want[k])])

HeadersRequest(t) == msg_getheaders(Locator(t.best), 0)

\* a Headers batch: accept, request the blocks, ask for more headers; the two
\* requests leave in either order
OnHeaders(t, headers, data_first) ==
    LET Ask(t1, want) ==
            [t1 EXCEPT
                !.asked = @ \cup {want[k] : k \in DOMAIN want},
                !.wire = @ \o (IF want = <<>> THEN <<HeadersRequest(t1)>>
                               ELSE IF data_first
                               THEN <<BlockRequest(want), HeadersRequest(t1)>>
                               ELSE <<HeadersRequest(t1), BlockRequest(want)>>)]
        Accepted(t1) == Ask(t1, Wanted(t1, headers))
    IN Accepted(LearnAll(t, headers, 1))

\* an Inv announcement: ask for headers
OnInv(t) == [t EXCEPT !.wire = Append(@, HeadersRequest(t))]

OnBlock(t, block) == [t EXCEPT !.blocks = @ \cup {block.hash_int}]

\* the messages of one handler run reach the node in the order they were sent
RECURSIVE Deliver(_, _, _, _)
Deliver(t, msgs, i, data_first) ==
    IF i > Len(msgs) THEN t
    ELSE IF msgs[i].command = "headers"
    THEN Deliver(OnHeaders(t, msgs[i].headers, data_first), msgs, i + 1, data_first)
    ELSE IF msgs[i].command = "inv"
    THEN Deliver(OnInv(t), msgs, i + 1, data_first)
    ELSE Deliver(OnBlock(t, msgs[i].block), msgs, i + 1, data_first)

\* the node connects, knowing the genesis block, and asks for headers
Connected ==
    [on |-> TRUE,
     wire |-> <<msg_getheaders(<<ActiveHash(0)>>, 0)>>,
     chain |-> (ActiveHash(0) :> <<ActiveHash(0)>>),
     best |-> <<ActiveHash(0)>>, asked |-> {}, blocks |-> {}]

TargetConnect ==
    /\ pc = "running" /\ ~target.on
    /\ target' = Connected
    /\ handled' = "" /\ fork' = NoFork /\ sent' = <<>> /\ raised' = ""
    /\ UNCHANGED main_vars
    /\ UNCHANGED <<pc, dir, upstream_tip, tip_limit, peer_hashes, stale_blocks, stale_by_parent,
                   stale_by_hash, max_height, served_stale_blocks, served_blocks,
                   active_height_by_hash, block_hash_by_height, header_by_hash,
                   block_by_hash, conn2, upstream_ok>>

\* the proxy takes the next request off the connection and runs its handler;
\* the node reacts to what the handler sent
SyncGetHeaders ==
    /\ target.on /\ target.wire # <<>>
    /\ Head(target.wire).command = "getheaders"
    /\ on_getheaders(Head(target.wire).vHave, Head(target.wire).hashstop)
    /\ \E data_first \in BOOLEAN :
          target' = Deliver([target EXCEPT !.wire = Tail(@)], sent', 1, data_first)

SyncGetData ==
    /\ target.on /\ target.wire # <<>>
    /\ Head(target.wire).command = "getdata"
    /\ on_getdata(Head(target.wire).inv)
    /\ \E data_first \in BOOLEAN :
          target' = Deliver([target EXCEPT !.wire = Tail(@)], sent', 1, data_first)

\* stale blocks at heights 1, 2 (two on one parent) and 3
FileG == StaleFile(1, 35, ActiveHash(0))

SyncFiles == {FileG, FileA, FileB, FileD}

SyncTip == 3

\* any catalog over SyncFiles, the ceiling at or below the upstream tip
InitSync ==
    \E files \in SUBSET SyncFiles, max \in {SyncTip - 1, SyncTip} :
        InitScenario(Scenario(files, max, SyncTip, SyncTip, {}))

NextSync == Startup \/ TargetConnect \/ SyncGetHeaders \/ SyncGetData

\* The states in which a step of Startup, SyncGetHeaders, SyncGetData changes
\* the state.  A GetData of the node names blocks not requested before, so
\* that its handler extends the ledger; a GetHeaders may find everything as
\* the last one left it.
StartupEnabled == pc = "start"

GetDataEnabled ==
    /\ pc = "running" /\ target.on /\ target.wire # <<>>
    /\ Head(target.wire).command = "getdata"

GetHeadersMoves(r, popped) ==
    \/ handled # "getheaders" \/ r.cv # ChainView \/ r.sent # sent
    \/ r.exc # raised \/ r.fork # fork
    \/ \E data_first \in BOOLEAN : Deliver(popped, r.sent, 1, data_first) # target

GetHeadersEnabled ==
    /\ pc = "running" /\ target.on /\ target.wire # <<>>
    /\ Head(target.wire).command = "getheaders"
    /\ GetHeadersMoves(GetHeadersResult(Head(target.wire).vHave,
                                        Head(target.wire).hashstop),
                       [target EXCEPT !.wire = Tail(@)])

\* Every message received is handled: the network thread runs the handler of
\* each message it reads, and the node sends what it has queued.  This is
\* weak fairness of each of the four steps; for the three whose definition
\* runs the loader or a handler, WF_vars(A) is written out as
\* []<>(A is not enabled) \/ []<><<A>>_vars.
SpecSync ==
    /\ InitSync
    /\ [][NextSync]_vars
    /\ WF_vars(TargetConnect)
    /\ ([]<>(~StartupEnabled) \/ []<><<Startup>>_vars)
    /\ ([]<>(~GetHeadersEnabled) \/ []<><<SyncGetHeaders>>_vars)
    /\ ([]<>(~GetDataEnabled) \/ []<><<SyncGetData>>_vars)

NextLoad == Startup

SpecLoad == InitLoad /\ [][NextLoad]_vars

(***************************************************************************)
(* contrib/historical_reorg_proxy.py: the reorg validation main runs when  *)
(* it shuts down.  Hashes are the 64-digit strings of the log and of       *)
(* hash_int_to_hex; positions count from 1.                                *)
(***************************************************************************)
MaxEvents == 3      \* UpdateTip events in the target's debug.log, at most

\* positions_by_hash[hash]: where the hash occurs in the events, ascending
Positions(update_tip_events_, hash) ==
    SelectSeq([i \in DOMAIN update_tip_events_ |-> i],
              LAMBDA i : update_tip_events_[i].hash = hash)

\* a faulty variant of the test below: only a higher block replaces the tip
ReplacesAbove(event, stale) ==
    event.hash # stale.hash /\ event.height > stale.height

\* if event["hash"] != stale_hash and event["height"] >= stale_height
Replaces(event, stale) ==
    event.hash # stale.hash /\ event.height >= stale.height

\* the for loop over update_tip_events[first_pos + 1:] from position i; st
\* holds reorged_out, saw_disconnect_phase and replaced_by
RECURSIVE ScanAfter(_, _, _, _)
ScanAfter(events, stale, i, st) ==
    IF i > Len(events) THEN st
    ELSE LET Seen(st1) ==
                 IF Replaces(events[i], stale)
                 THEN [st1 EXCEPT !.reorged_out = TRUE, !.replaced_by = events[i]]
                 ELSE ScanAfter(events, stale, i + 1, st1)
         IN Seen(IF events[i].height < stale.height
                 THEN [st EXCEPT !.saw_disconnect_phase = TRUE] ELSE st)

NotReplaced == [reorged_out |-> FALSE, saw_disconnect_phase |-> FALSE, replaced_by |-> None]

\* one pass of the loop over the served stale blocks: the entry of per_block
PerBlock(events, stale) ==
    LET Entry(connected_as_tip, st) ==
            [hash |-> stale.hash, height |-> stale.height,
             connected_as_tip |-> connected_as_tip,
             reorged_out |-> st.reorged_out,
             saw_disconnect_phase |-> st.saw_disconnect_phase,
             replaced_by |-> st.replaced_by]
        Block(positions) ==
            IF positions = <<>> THEN Entry(FALSE, NotReplaced)
            ELSE Entry(TRUE, ScanAfter(events, stale, positions[1] + 1, NotReplaced))
    IN Block(Positions(events, stale.hash))

\* key=lambda item: (item["height"], item["hash"]), the hash a string
ItemLess(a, b) ==
    a.height < b.height \/ (a.height = b.height /\ PathLess(a.hash, b.hash))

RECURSIVE InsertItem(_, _)
InsertItem(items, item) ==
    IF items = <<>> THEN <<item>>
    ELSE IF ItemLess(item, Head(items)) THEN <<item>> \o items
    ELSE <<Head(items)>> \o InsertItem(Tail(items), item)

\* sorted(served_stale, key=...)
RECURSIVE SortItems(_)
SortItems(items) ==
    IF items = <<>> THEN <<>>
    ELSE InsertItem(SortItems(SubSeq(items, 1, Len(items) - 1)), items[Len(items)])

\* the summary returned for the list per_block
Summarise(served_stale_, events, per_block) ==
    [served_stale |-> Len(served_stale_),
     update_tip_events |-> Len(events),
     connected_as_tip |-> Len(SelectSeq(per_block, LAMBDA b : b.connected_as_tip)),
     reorged_out |-> Len(SelectSeq(per_block, LAMBDA b : b.reorged_out)),
     with_disconnect_phase |-> Len(SelectSeq(per_block, LAMBDA b : b.saw_disconnect_phase)),
     missing_tip |-> SelectSeq(per_block, LAMBDA b : ~b.connected_as_tip),
     missing_reorg |-> SelectSeq(per_block, LAMBDA b : b.connected_as_tip /\ ~b.reorged_out),
     details |-> per_block]

validate_reorgs_from_events(served_stale_, update_tip_events_) ==
    LET Sorted(items) ==
            Summarise(served_stale_, update_tip_events_,
                      [k \in DOMAIN items |-> PerBlock(update_tip_events_, items[k])])
    IN Sorted(SortItems(served_stale_))

\* a faulty variant of the loop below: a repeated stale entry is passed again
RECURSIVE ServedStaleRepeated(_, _, _, _)
ServedStaleRepeated(ledger, i, seen, acc) ==
    IF i > Len(ledger) THEN acc
    ELSE IF ledger[i][1] # "stale"
    THEN ServedStaleRepeated(ledger, i + 1, seen, acc)
    ELSE ServedStaleRepeated(ledger, i + 1, seen \cup {ledger[i][3]},
                             Append(acc, [height |-> ledger[i][2],
                                          hash |-> hash_int_to_hex(ledger[i][3])]))

\* main: the loop over proxy.served_blocks from entry i that builds served_stale
RECURSIVE ServedStaleFrom(_, _, _, _)
ServedStaleFrom(ledger, i, seen, acc) ==
    IF i > Len(ledger) THEN acc
    ELSE IF ledger[i][1] # "stale" \/ ledger[i][3] \in seen
    THEN ServedStaleFrom(ledger, i + 1, seen, acc)
    ELSE ServedStaleFrom(ledger, i + 1, seen \cup {ledger[i][3]},
                         Append(acc, [height |-> ledger[i][2],
                                      hash |-> hash_int_to_hex(ledger[i][3])]))

\* exit_code after the summary: 1 unless the validation passed or
\* --allow-missing-reorgs is set
ExitCode(result, options) ==
    IF (result.missing_tip # <<>> \/ result.missing_reorg # <<>>)
       /\ ~options.allow_missing_reorgs
    THEN 1 ELSE 0

\* the events parse_update_tip_events may read: the hashes of the two stale
\* blocks and of the canonical block of their height, at heights below, at and
\* above the stale height, every line of the log an UpdateTip line
EventHashes == {hash_int_to_hex(33), hash_int_to_hex(34), hash_int_to_hex(ActiveHash(2))}

EventHeights == 1..3

EventLogs ==
    UNION {{[i \in 1..k |-> [lineno |-> i, hash |-> f[i].hash, height |-> f[i].height]] :
               f \in [1..k -> [hash : EventHashes, height : EventHeights]]} : k \in 0..MaxEvents}

\* main's finally block, entered on KeyboardInterrupt while the proxy runs
Finish(events, items) ==
    /\ update_tip_events' = events
    /\ served_stale' = items
    /\ summary' = validate_reorgs_from_events(items, events)
    /\ exit_code' = ExitCode(validate_reorgs_from_events(items, events), args)

Shutdown ==
    /\ pc = "running"
    /\ pc' = "exited"
    /\ IF args.target_debug_log
       THEN \E events \in EventLogs :
                Finish(events, ServedStaleFrom(served_blocks, 1, {}, <<>>))
       ELSE UNCHANGED <<update_tip_events, served_stale, summary, exit_code>>
    /\ handled' = "" /\ fork' = NoFork /\ sent' = <<>> /\ raised' = ""
    /\ UNCHANGED <<dir, upstream_tip, tip_limit, peer_hashes, stale_blocks, stale_by_parent,
                   stale_by_hash, max_height, served_stale_blocks, served_blocks,
                   active_height_by_hash, block_hash_by_height, header_by_hash,
                   block_by_hash, conn2, upstream_ok, target, args>>

\* two stale blocks of height 2; the peer asks for them and for the canonical
\* block of that height
ShutdownScenario == Scenario({FileA, FileB}, None, 2, 2, {33, 34, ActiveHash(2)})

InitShutdown ==
    \E options \in [target_debug_log : BOOLEAN, allow_missing_reorgs : BOOLEAN] :
        InitRun(ShutdownScenario, options)

NextShutdown == Startup \/ GetData \/ Shutdown

SpecShutdown == InitShutdown /\ [][NextShutdown]_vars

(***************************************************************************)
(* Vocabulary of the properties.                                           *)
(***************************************************************************)
Kind(entry) == entry[1]
HeightOf(entry) == entry[2]
HashOf(entry) == entry[3]

CountInLedger(entry) ==
    Cardinality({i \in DOMAIN served_blocks : served_blocks[i] = entry})

InLedger(kind, hash) ==
    \E i \in DOMAIN served_blocks :
        Kind(served_blocks[i]) = kind /\ HashOf(served_blocks[i]) = hash

FirstPos(kind, hash) ==
    CHOOSE i \in DOMAIN served_blocks :
        /\ Kind(served_blocks[i]) = kind /\ HashOf(served_blocks[i]) = hash
        /\ \A j \in 1..(i - 1) :
              ~(Kind(served_blocks[j]) = kind /\ HashOf(served_blocks[j]) = hash)

Catalog == {stale_blocks[i] : i \in DOMAIN stale_blocks}

\* the height at which hash sits on the upstream's chain, including the part
\* the upstream has yet to connect
CanonicalHeight(hash) == hash - ActiveHash(0)

\* the height of a header or block the proxy sent: the catalog's for a stale
\* block, the chain's otherwise
SentHeight(block) ==
    IF \E r \in Catalog : r.hash_int = block.hash_int
    THEN (CHOOSE r \in Catalog : r.hash_int = block.hash_int).height
    ELSE CanonicalHeight(block.hash_int)

\* min(upstream tip, maxHeight or +infinity), as the specification words it
CeilingTip ==
    IF max_height = None THEN upstream_tip
    ELSE IF upstream_tip < max_height THEN upstream_tip ELSE max_height

IsPrefix(a, b) == Len(a) <= Len(b) /\ SubSeq(b, 1, Len(a)) = a

Locators == SeqsUpTo(peer_hashes, MaxLocator)
Stops == {0} \cup peer_hashes
BlockInv(hash) == CInv(MSG_BLOCK, hash)

\* ActiveHeightOf(hash) as the chain view answers it in the current state
ActiveHeightOf(hash) == get_active_height(ChainView, hash).ret

(***************************************************************************)
(* C1: every stale record has at most one ('stale', height, hash) entry in *)
(* the ledger, whatever GetData requests were handled.                     *)
(* The handler appends an entry each time the hash is requested.           *)
(***************************************************************************)
C1_AtMostOnceServing ==
    \A r \in Catalog : CountInLedger(<<"stale", r.height, r.hash_int>>) <= 1

(***************************************************************************)
(* C2: when a stale record at height H and the canonical block at height H *)
(* both have ledger entries, the first stale entry comes strictly before   *)
(* the first active entry.                                                 *)
(* The handler serves the canonical block whenever it is asked for.        *)
(***************************************************************************)
C2_StaleBeforeActive ==
    \A r \in Catalog :
        (InLedger("stale", r.hash_int) /\ InLedger("active", ActiveHash(r.height)))
            => FirstPos("stale", r.hash_int) < FirstPos("active", ActiveHash(r.height))

(***************************************************************************)
(* C3: with maxHeight = M configured, no header of a Headers response is   *)
(* at a height above M, canonical or stale.                                *)
(***************************************************************************)
C3_HeadersCeiling ==
    (max_height # None /\ handled = "getheaders") =>
        \A i \in DOMAIN sent :
            sent[i].command = "headers" =>
                \A k \in DOMAIN sent[i].headers :
                    SentHeight(sent[i].headers[k]) <= max_height

\* a Headers response that stops at the ceiling while the upstream is above it
C3_Witness ==
    /\ max_height # None /\ handled = "getheaders"
    /\ upstream_tip > max_height
    /\ \E r \in Catalog : r.height > max_height
    /\ Len(sent) = 1 /\ sent[1].command = "headers" /\ sent[1].headers # <<>>
    /\ SentHeight(sent[1].headers[Len(sent[1].headers)]) = max_height

(***************************************************************************)
(* C4: with maxHeight = M configured, no GetData makes the proxy transmit  *)
(* a block above M or append a ledger entry with a height above M.         *)
(* The handler never looks at max_height for the block it serves.          *)
(***************************************************************************)
C4_BlocksCeiling ==
    max_height # None =>
        /\ \A i \in DOMAIN served_blocks : HeightOf(served_blocks[i]) <= max_height
        /\ \A i \in DOMAIN sent :
              sent[i].command = "block" => SentHeight(sent[i].block) <= max_height

(***************************************************************************)
(* C5: a GetHeaders whose fork height is at or above the effective tip     *)
(* (forkHeight + 1 > min(upstream tip, maxHeight)) is answered by an empty *)
(* Headers batch, also when an unserved stale record has the fork hash as  *)
(* its parent.                                                             *)
(***************************************************************************)
C5_EmptyAtTip ==
    (handled = "getheaders" /\ raised = "" /\ fork.height + 1 > CeilingTip)
        => sent = <<msg_headers(<<>>)>>

\* the fork is the tip, an unserved stale record under the ceiling hangs on it
C5_Witness ==
    /\ handled = "getheaders" /\ raised = ""
    /\ fork.height + 1 > CeilingTip
    /\ \E r \in Catalog :
          /\ r.prev_hash_int = fork.hash
          /\ r.hash_int \notin served_stale_blocks
          /\ (max_height = None \/ r.height <= max_height)
    /\ sent = <<msg_headers(<<>>)>>

(***************************************************************************)
(* C6: a GetHeaders whose locator is empty or holds no hash for which      *)
(* ActiveHeightOf returns a height takes genesis (the canonical hash at    *)
(* height 0) as the fork point, walks from height 1 and raises nothing.    *)
(***************************************************************************)
C6_LocatorFallback ==
    pc = "running" =>
        \A locator_hashes \in Locators :
            (\A i \in DOMAIN locator_hashes :
                ActiveHeightOf(locator_hashes[i]) = None)
            => \A hash_stop \in Stops :
                  LET r == GetHeadersResult(locator_hashes, hash_stop) IN
                  /\ r.exc = ""
                  /\ r.fork.hash = ActiveHash(0) /\ r.fork.height = 0
                  /\ Len(r.sent) = 1 /\ r.sent[1].command = "headers"
                  /\ CeilingTip >= 1 =>
                        /\ r.sent[1].headers # <<>>
                        /\ r.sent[1].headers[1].hashPrevBlock = ActiveHash(0)

\* a GetHeaders fell back to genesis after a lookup that found no height
C6_Witness ==
    /\ handled = "getheaders" /\ raised = ""
    /\ fork.via = "genesis" /\ fork.hash = ActiveHash(0) /\ fork.height = 0
    /\ \E h \in DOMAIN active_height_by_hash : active_height_by_hash[h] = None
    /\ sent[1].headers # <<>>
    /\ sent[1].headers[1].hashPrevBlock = ActiveHash(0)

(***************************************************************************)
(* C7: if some file of the directory matches <height>-<hash>.bin and its   *)
(* content hashes to another value than the name's hash, the load fails    *)
(* with an error and yields no record, however many files are valid and    *)
(* wherever the scan meets the bad file.                                   *)
(***************************************************************************)
Mismatched(f) ==
    /\ GlobBin(f.name) /\ STALE_BLOCK_FILE_RE(f.name)
    /\ hash_int_to_hex(f.block.hash_int) # MatchHash(f.name)

C7_LoadRejection ==
    (pc # "start" /\ \E f \in dir : Mismatched(f)) =>
        /\ pc = "load_failed" /\ raised = "ValueError"
        /\ stale_blocks = <<>>
        /\ stale_by_hash = EmptyMap /\ stale_by_parent = EmptyMap

\* the load failed on a bad file that sorts after three valid ones
C7_Witness ==
    /\ pc = "load_failed" /\ raised = "ValueError"
    /\ dir = {FileA, FileB, FileD, FileLateBad}
    /\ Mismatched(FileLateBad) /\ ~Mismatched(FileA)
    /\ stale_blocks = <<>>

(***************************************************************************)
(* C8: one stale record at height 5 on the active block of height 4, the   *)
(* upstream tip at 10.  GetHeaders([activeHash4]) returns the stale header *)
(* alone; GetData([staleHash5]) sends the stale block, appends             *)
(* ('stale', 5, staleHash5) and announces Inv([activeHash6]); GetHeaders   *)
(* on the same fork then returns the canonical headers 5..10; and when the *)
(* canonical block of height 5 is requested after that, stale(5) is in the *)
(* ledger strictly before active(5).                                       *)
(***************************************************************************)
StaleHash5 == FileE2E.block.hash_int
StaleEntry5 == <<"stale", 5, StaleHash5>>
ActiveEntry5 == <<"active", 5, ActiveHash(5)>>
StaleHeader5 == [hash_int |-> StaleHash5, hashPrevBlock |-> ActiveHash(4)]

C8_EndToEnd ==
    (pc = "running" /\ upstream_tip = 10) =>
        /\ StaleHash5 \notin served_stale_blocks =>
              /\ GetHeadersResult(<<ActiveHash(4)>>, 0).sent
                    = <<msg_headers(<<StaleHeader5>>)>>
              /\ LET r == GetDataResult(<<BlockInv(StaleHash5)>>) IN
                 /\ r.exc = ""
                 /\ r.sent = <<msg_block(StaleHeader5),
                               msg_inv(<<CInv(MSG_BLOCK, ActiveHash(6))>>)>>
                 /\ r.ledger = Append(served_blocks, StaleEntry5)
                 /\ StaleHash5 \in r.served
        /\ StaleHash5 \in served_stale_blocks =>
              GetHeadersResult(<<ActiveHash(4)>>, 0).sent
                  = <<msg_headers([k \in 1..6 |-> UpstreamBlock(4 + k)])>>
        /\ served_blocks = <<StaleEntry5>> =>
              LET r == GetDataResult(<<BlockInv(ActiveHash(5))>>) IN
              /\ r.exc = ""
              /\ r.sent = <<msg_block(UpstreamBlock(5))>>
              /\ r.ledger = <<StaleEntry5, ActiveEntry5>>

\* the scenario has run: the stale block went out, the canonical headers
\* 5..10 were walked, the canonical block of height 5 followed
C8_Witness ==
    /\ upstream_tip = 10
    /\ served_blocks = <<StaleEntry5, ActiveEntry5>>
    /\ StaleHash5 \in served_stale_blocks
    /\ \A h \in 5..10 : ActiveHash(h) \in DOMAIN header_by_hash
    /\ handled = "getdata" /\ raised = ""
    /\ sent = <<msg_block(UpstreamBlock(5))>>

(***************************************************************************)
(* C9: a GetData entry of block type whose hash is neither in the catalog  *)
(* nor has an active height appends nothing to the ledger, sends no block  *)
(* and raises nothing, and the entries after it are processed as if it had *)
(* not been there.                                                         *)
(* The handler appends ('active', None, hash) and the block fetch raises.  *)
(***************************************************************************)
C9_UnknownIgnored ==
    pc = "running" =>
        \A hash \in peer_hashes :
            (hash \notin DOMAIN stale_by_hash /\ ActiveHeightOf(hash) = None) =>
                /\ LET r == GetDataResult(<<BlockInv(hash)>>) IN
                   r.exc = "" /\ r.ledger = served_blocks /\ r.sent = <<>>
                /\ \A next \in peer_hashes :
                      LET r == GetDataResult(<<BlockInv(hash), BlockInv(next)>>)
                          alone == GetDataResult(<<BlockInv(next)>>)
                      IN r.exc = alone.exc /\ r.ledger = alone.ledger
                            /\ r.sent = alone.sent

(***************************************************************************)
(* C10: the ledger is append-only: over every step the ledger before is a  *)
(* prefix of the ledger after.                                             *)
(***************************************************************************)
C10_AppendOnly == [][IsPrefix(served_blocks, served_blocks')]_vars

\* a GetData appended a second, different entry behind the first
C10_Witness ==
    /\ handled = "getdata"
    /\ Len(served_blocks) = 2 /\ served_blocks[1] # served_blocks[2]

(***************************************************************************)
(* C11: the ledger records exactly the blocks transmitted, in the order of *)
(* transmission: the entries a GetData appends name, one for one and in    *)
(* order, the Block messages it sends (kind 'stale' for a catalog block),  *)
(* and they follow the order of the block-type items of the request.       *)
(* The handler appends the 'active' entry before it fetches the block, so  *)
(* an entry stays behind for a block the upstream does not have.           *)
(***************************************************************************)
Inventories == SeqsUpTo([type : InvTypes, hash : peer_hashes], MaxInv)

IsBlockType(inv) == (inv.type % (MSG_TYPE_MASK + 1)) = MSG_BLOCK

BlocksSent(messages) == SelectSeq(messages, LAMBDA m : m.command = "block")

Appended(ledger) == SubSeq(ledger, Len(served_blocks) + 1, Len(ledger))

LedgerMatchesSent(appended, blocks, wanted) ==
    /\ Len(appended) = Len(blocks)
    /\ \A k \in DOMAIN appended :
          /\ k <= Len(blocks) => HashOf(appended[k]) = blocks[k].block.hash_int
          /\ Kind(appended[k]) = "stale" <=> HashOf(appended[k]) \in DOMAIN stale_by_hash
          /\ k <= Len(wanted) => HashOf(appended[k]) = wanted[k].hash

C11_LedgerIsTransmission ==
    pc = "running" =>
        \A invs \in Inventories :
            LedgerMatchesSent(Appended(GetDataResult(invs).ledger),
                              BlocksSent(GetDataResult(invs).sent),
                              SelectSeq(invs, IsBlockType))

(***************************************************************************)
(* C16: the stale substitution does not depend on hashStop: a GetHeaders   *)
(* whose fork is the parent of an unserved stale record is answered with   *)
(* that record's header at the first position, for hashStop zero, equal to *)
(* the stale hash, or any other non-zero hash.                             *)
(* The candidate filter skips a record when hashStop names another hash.   *)
(***************************************************************************)
\* r is the record the walk meets first on its parent
FirstUnserved(r) ==
    /\ r.hash_int \notin served_stale_blocks
    /\ max_height = None \/ r.height <= max_height
    /\ \A q \in Catalog :
          (q.prev_hash_int = r.prev_hash_int /\ q.hash_int \notin served_stale_blocks)
              => ~RecLess(q, r)

C16_SubstitutionAnyStop ==
    pc = "running" =>
        \A r \in Catalog :
            (/\ FirstUnserved(r)
             /\ ActiveHeightOf(r.prev_hash_int) # None
             /\ ActiveHeightOf(r.prev_hash_int) + 1 <= CeilingTip)
            => \A hash_stop \in Stops \cup {r.hash_int} :
                  GetHeadersResult(<<r.prev_hash_int>>, hash_stop).sent
                      = <<msg_headers(<<StaleBlock(r)>>)>>

(***************************************************************************)
(* C17: an injected stale header ends the batch: a Headers response holds  *)
(* at most one stale header, and a stale header it holds is its last       *)
(* element.                                                                *)
(***************************************************************************)
IsStaleHeader(header) == header.hash_int \in DOMAIN stale_by_hash

C17_StaleIsTerminal ==
    handled = "getheaders" =>
        \A i \in DOMAIN sent :
            sent[i].command = "headers" =>
                \A k \in DOMAIN sent[i].headers :
                    IsStaleHeader(sent[i].headers[k]) => k = Len(sent[i].headers)

\* canonical headers, then the stale header, with the tip still above it
C17_Witness ==
    /\ handled = "getheaders" /\ raised = ""
    /\ Len(sent) = 1 /\ Len(sent[1].headers) >= 2
    /\ ~IsStaleHeader(sent[1].headers[1])
    /\ IsStaleHeader(sent[1].headers[Len(sent[1].headers)])
    /\ SentHeight(sent[1].headers[Len(sent[1].headers)]) < CeilingTip

(***************************************************************************)
(* C18: the fork point of a GetHeaders is the first hash of the locator,   *)
(* in the order supplied, that has an active height, also when a later     *)
(* hash of the locator has a greater one; hashes before it that are not on *)
(* the active chain, such as a served stale hash, are skipped.             *)
(***************************************************************************)
C18_FirstMatch ==
    pc = "running" =>
        \A locator_hashes \in Locators :
            \A i \in DOMAIN locator_hashes :
                (/\ ActiveHeightOf(locator_hashes[i]) # None
                 /\ \A j \in 1..(i - 1) : ActiveHeightOf(locator_hashes[j]) = None)
                => LET f == _find_active_fork(ChainView, locator_hashes) IN
                   /\ f.exc = ""
                   /\ f.hash = locator_hashes[i]
                   /\ f.height = ActiveHeightOf(locator_hashes[i])

\* the second locator hash was taken after a served stale hash was skipped,
\* while a hash with a greater active height was known
C18_Witness ==
    /\ handled = "getheaders" /\ raised = ""
    /\ fork.via = "locator" /\ fork.index = 2
    /\ \E h \in served_stale_blocks :
          h \in DOMAIN active_height_by_hash /\ active_height_by_hash[h] = None
    /\ \E h \in peer_hashes : ActiveHeightOf(h) # None /\ ActiveHeightOf(h) > fork.height

(***************************************************************************)
(* C19: hashStop ends the batch: when hashStop is non-zero and is the      *)
(* canonical hash at a height h the walk reaches, the Headers response is  *)
(* the canonical headers from forkHeight + 1 up to h, the header of        *)
(* hashStop last and nothing above h, however far the tip is.              *)
(***************************************************************************)
CanonicalHeaders(from, to) == [k \in 1..(to - from + 1) |-> UpstreamBlock(from + k - 1)]

C19_HashStopEnds ==
    pc = "running" =>
        \A locator_hashes \in Locators :
            \A hash_stop \in peer_hashes :
                LET r == GetHeadersResult(locator_hashes, hash_stop)
                    h == CanonicalHeight(hash_stop)
                IN (/\ hash_stop # 0 /\ r.exc = ""
                    /\ h >= 0 /\ ActiveHash(h) = hash_stop
                    /\ r.fork.height < h /\ h <= CeilingTip)
                   => r.sent = <<msg_headers(CanonicalHeaders(r.fork.height + 1, h))>>

\* a batch of canonical headers that ends below the effective tip
C19_Witness ==
    /\ handled = "getheaders" /\ raised = ""
    /\ Len(sent) = 1 /\ Len(sent[1].headers) >= 2
    /\ \A k \in DOMAIN sent[1].headers : ~IsStaleHeader(sent[1].headers[k])
    /\ sent[1].headers[Len(sent[1].headers)].hash_int \in peer_hashes
    /\ SentHeight(sent[1].headers[Len(sent[1].headers)]) < CeilingTip

(***************************************************************************)
(* C12: two connections, each a protocol-state instance over the same      *)
(* catalog in one process, each asked by GetData for the same stale hash:  *)
(* in any interleaving the stale block is transmitted at most once in      *)
(* total and at most one 'stale' ledger entry for it exists over both.     *)
(* Each instance has a served set of its own, so each serves the block.    *)
(* Stated for connections that each ask at most once, so that a repeat     *)
(* within one connection is not what is counted.                           *)
(***************************************************************************)
CountIn(ledger, entry) == Cardinality({i \in DOMAIN ledger : ledger[i] = entry})

C12_AtMostOnceAcross ==
    \A r \in Catalog :
        LET entry == <<"stale", r.height, r.hash_int>> IN
        (CountIn(served_blocks, entry) <= 1 /\ CountIn(conn2.ledger, entry) <= 1)
            => CountIn(served_blocks, entry) + CountIn(conn2.ledger, entry) <= 1

(***************************************************************************)
(* C15: determinism: two instances started with the same catalog, the same *)
(* maxHeight and the same upstream, fed the same requests, send the same   *)
(* messages and keep the same ledger.  The handlers read the catalog only  *)
(* through stale_by_parent and stale_by_hash, so this is: in whatever      *)
(* order the catalog's records are handed to an instance, it builds the    *)
(* same two indexes, candidates of one parent in the same order, and an    *)
(* instance in the same state answers the same GetData the same way.       *)
(***************************************************************************)
Orderings(recs) ==
    {[i \in DOMAIN recs |-> recs[f[i]]] :
        f \in {g \in [DOMAIN recs -> DOMAIN recs] :
                 \A i, j \in DOMAIN recs : g[i] = g[j] => i = j}}

C14_FailureIsNotAbsent ==
    pc = "running" =>
        \A h \in DOMAIN active_height_by_hash :
            active_height_by_hash[h] = None
                => UpstreamHeightOf(hash_int_to_hex(h)) = None

(***************************************************************************)
(* C20: a Headers response holds at most MAX_HEADERS_RESULTS (2000)        *)
(* headers, the injected stale header included; when the cap is reached    *)
(* without a stale header the batch is exactly the canonical headers       *)
(* forkHeight + 1 .. forkHeight + 2000, whatever lies above on the chain.  *)
(***************************************************************************)
C20_BatchCap ==
    handled = "getheaders" =>
        \A i \in DOMAIN sent :
            sent[i].command = "headers" =>
                /\ Len(sent[i].headers) <= MAX_HEADERS_RESULTS
                /\ (/\ Len(sent[i].headers) = MAX_HEADERS_RESULTS
                    /\ \A k \in DOMAIN sent[i].headers :
                          ~IsStaleHeader(sent[i].headers[k]))
                   => sent[i].headers
                        = CanonicalHeaders(fork.height + 1,
                                           fork.height + MAX_HEADERS_RESULTS)

\* the cap was reached on canonical headers with the chain going on above
C20_Witness ==
    /\ handled = "getheaders" /\ raised = ""
    /\ Len(sent) = 1 /\ Len(sent[1].headers) = MAX_HEADERS_RESULTS
    /\ \A k \in DOMAIN sent[1].headers : ~IsStaleHeader(sent[1].headers[k])
    /\ upstream_tip > fork.height + MAX_HEADERS_RESULTS

(***************************************************************************)
(* C13: sync completes.  With a headers-first node on the connection and   *)
(* the upstream tip at or above max_height, eventually the node has been   *)
(* sent the canonical block at every height 1..max_height, and every       *)
(* catalog record whose parent is a canonical block below max_height has a *)
(* 'stale' entry in the ledger.                                            *)
(***************************************************************************)
ParentBelowCeiling(r) ==
    \E h \in 0..(max_height - 1) : r.prev_hash_int = ActiveHash(h)

SyncComplete ==
    /\ pc = "running"
    /\ \A h \in 1..max_height : ActiveHash(h) \in target.blocks
    /\ \A r \in Catalog :
          ParentBelowCeiling(r) => CountInLedger(<<"stale", r.height, r.hash_int>>) >= 1

C13_SyncCompletes == <>SyncComplete

\* the sync is complete with two stale blocks of one parent served
C13_Witness ==
    /\ SyncComplete
    /\ \E r1, r2 \in Catalog :
          /\ r1 # r2 /\ r1.prev_hash_int = r2.prev_hash_int
          /\ ParentBelowCeiling(r1)

(***************************************************************************)
(* C21: GetHeaders and the announcement that follows a stale block in      *)
(* GetData both work up to min(upstream tip at the time of the request,    *)
(* max_height), no bound when max_height is unset: a walk that meets no    *)
(* stale block ends on the canonical header at that height, the            *)
(* announcement is made exactly when the next height is within it; a rise  *)
(* of the upstream tip shows in the next request.                          *)
(***************************************************************************)
WalkReachesTip(r) ==
    LET Reaches(headers) ==
            /\ r.fork.height + 1 > CeilingTip => headers = <<>>
            /\ r.fork.height + 1 <= CeilingTip =>
                  /\ headers # <<>>
                  /\ \/ IsStaleHeader(headers[Len(headers)])
                     \/ headers[Len(headers)] = UpstreamBlock(CeilingTip)
            /\ \A k \in DOMAIN headers : SentHeight(headers[k]) <= CeilingTip
    IN r.exc = "" => (Len(r.sent) = 1 /\ Reaches(r.sent[1].headers))

Announces(messages) == \E k \in DOMAIN messages : messages[k].command = "inv"

C21_EffectiveTip ==
    pc = "running" =>
        /\ \A locator_hashes \in Locators :
              WalkReachesTip(GetHeadersResult(locator_hashes, 0))
        /\ \A r \in Catalog :
              Announces(GetDataResult(<<BlockInv(r.hash_int)>>).sent)
                  <=> r.height + 1 <= CeilingTip

\* the upstream has grown since startup, and a walk went up to the new tip,
\* where it met a stale block
C21_Witness ==
    /\ handled = "getheaders" /\ raised = "" /\ max_height = None
    /\ upstream_tip = MaxTip
    /\ Len(sent) = 1 /\ Len(sent[1].headers) >= 2
    /\ IsStaleHeader(sent[1].headers[Len(sent[1].headers)])
    /\ SentHeight(sent[1].headers[Len(sent[1].headers)]) = MaxTip

(***************************************************************************)
(* C22: when GetData serves a stale record at height h, the Block message  *)
(* is followed by exactly one Inv, of the canonical hash at height h + 1,  *)
(* if and only if h + 1 is within the effective tip; an active block is    *)
(* followed by no Inv.                                                     *)
(***************************************************************************)
IsStaleBlockMessage(m) == m.command = "block" /\ IsStaleHeader(m.block)

NextAnnouncement(m) ==
    msg_inv(<<CInv(MSG_BLOCK, ActiveHash(SentHeight(m.block) + 1))>>)

C22_ProactiveAnnouncement ==
    handled = "getdata" =>
        \A k \in DOMAIN sent :
            /\ IsStaleBlockMessage(sent[k]) =>
                  IF SentHeight(sent[k].block) + 1 <= CeilingTip
                  THEN /\ k < Len(sent) /\ sent[k + 1] = NextAnnouncement(sent[k])
                       /\ k + 2 <= Len(sent) => sent[k + 2].command # "inv"
                  ELSE k < Len(sent) => sent[k + 1].command # "inv"
            /\ sent[k].command = "inv" =>
                  k > 1 /\ IsStaleBlockMessage(sent[k - 1])

\* a stale block announced, and an active block served after it without one
C22_Witness ==
    /\ handled = "getdata" /\ raised = "" /\ Len(sent) = 3
    /\ IsStaleBlockMessage(sent[1])
    /\ sent[2] = NextAnnouncement(sent[1])
    /\ sent[3].command = "block" /\ ~IsStaleBlockMessage(sent[3])

(***************************************************************************)
(* C23: a GetData entry of block type whose hash is no stale record and is *)
(* on the active chain at height h appends exactly ('active', h, hash) and *)
(* transmits the upstream's block; every 'active' entry of the ledger      *)
(* carries the integer height of its hash on the active chain.             *)
(* The handler appends what get_active_height returns, None included, and  *)
(* get_active_height keeps answering None for a hash it was asked about    *)
(* before the upstream connected the block.                                *)
(***************************************************************************)
ServesActiveAt(hash, h, r) ==
    /\ Appended(r.ledger) = <<<<"active", h, hash>>>>
    /\ r.sent = <<msg_block(UpstreamBlock(h))>>

C23_ActiveServing ==
    pc = "running" =>
        /\ \A hash \in peer_hashes :
              (/\ hash \notin DOMAIN stale_by_hash
               /\ UpstreamHeightOf(hash_int_to_hex(hash)) # None)
              => ServesActiveAt(hash, UpstreamHeightOf(hash_int_to_hex(hash)),
                                GetDataResult(<<BlockInv(hash)>>))
        /\ \A i \in DOMAIN served_blocks :
              Kind(served_blocks[i]) = "active" =>
                  /\ HeightOf(served_blocks[i]) # None
                  /\ ActiveHash(HeightOf(served_blocks[i])) = HashOf(served_blocks[i])

(***************************************************************************)
(* C24: a GetData entry whose type is not that of a full block appends     *)
(* nothing to the ledger, leaves the served set alone, sends nothing, and  *)
(* the entries after it are handled as if it were not there.               *)
(***************************************************************************)
\* inventory types that are not full blocks: transactions, filtered and
\* compact blocks
OtherTypes == {MSG_TX, MSG_TX + MSG_WITNESS_FLAG, MSG_BLOCK + 1, MSG_BLOCK + 2}

InsertAt(seq, p, e) == SubSeq(seq, 1, p) \o <<e>> \o SubSeq(seq, p + 1, Len(seq))

C24_InventoryFiltering ==
    pc = "running" =>
        \A invs \in Inventories, type \in OtherTypes, hash \in peer_hashes :
            \A p \in 0..Len(invs) :
                GetDataResult(InsertAt(invs, p, CInv(type, hash))) = GetDataResult(invs)

\* a compact-block entry for a catalog hash comes first, the block entry
\* after it is served
C24_Witness ==
    /\ pc = "running" /\ handled = "getdata" /\ served_blocks # <<>>
    /\ \E stale \in DOMAIN stale_by_hash, hash \in peer_hashes :
          /\ stale \in peer_hashes
          /\ Len(GetDataResult(<<CInv(MSG_BLOCK + 2, stale), BlockInv(hash)>>).sent) >= 1
          /\ GetDataResult(<<CInv(MSG_BLOCK + 2, stale)>>).sent = <<>>

(***************************************************************************)
(* C25: the served set only grows and agrees with the ledger: no step      *)
(* removes a hash from it, every hash in it is the hash of a catalog       *)
(* record, and a hash is in it exactly when the ledger holds a 'stale'     *)
(* entry for it.                                                           *)
(***************************************************************************)
ServedAgrees ==
    /\ \A hash \in served_stale_blocks : \E r \in Catalog : r.hash_int = hash
    /\ \A hash \in served_stale_blocks : InLedger("stale", hash)
    /\ \A i \in DOMAIN served_blocks :
          Kind(served_blocks[i]) = "stale" => HashOf(served_blocks[i]) \in served_stale_blocks

C25_ServedSetGrows ==
    /\ []ServedAgrees
    /\ [][served_stale_blocks \subseteq served_stale_blocks']_vars

\* both stale blocks of the catalog were served
C25_Witness ==
    /\ handled = "getdata"
    /\ Cardinality(served_stale_blocks) = 2
    /\ Len(served_blocks) = 2

(***************************************************************************)
(* C26: over any sequence of get_block_hash, get_header and get_block      *)
(* calls the upstream is queried at most once per height, resp. hash: a    *)
(* second call for a key does not query.                                   *)
(* A query that raises leaves no entry, and the next call queries again.   *)
(***************************************************************************)
\* the keys the handlers call with: the heights of the chain, the hashes of
\* its blocks and the hashes a peer names that are not in the catalog
Heights == 0..tip_limit
Hashes == (peer_hashes \ DOMAIN stale_by_hash) \cup {ActiveHash(h) : h \in Heights}

C26_QueriedOnce ==
    pc = "running" =>
        /\ \A height \in Heights :
              height \in DOMAIN get_block_hash(ChainView, height).cv.bh
        /\ \A hash \in Hashes :
              /\ hash \in DOMAIN get_header(ChainView, hash).cv.hdr
              /\ hash \in DOMAIN get_block(ChainView, hash).cv.blk

(***************************************************************************)
(* C26, amended: a call whose key is cached returns the cached value,      *)
(* queries nothing and changes nothing; a call that queries and is         *)
(* answered caches the answer under its key; no step removes or changes a  *)
(* cached entry.                                                           *)
(***************************************************************************)
CacheThrough(cache, key, r, after) ==
    /\ key \in DOMAIN cache => (r.exc = "" /\ r.ret = cache[key] /\ after = cache)
    /\ (key \notin DOMAIN cache /\ r.exc = "") =>
          after = (key :> r.ret) @@ cache
    /\ (key \notin DOMAIN cache /\ r.exc # "") => after = cache

CachesThrough ==
    pc = "running" =>
        /\ \A height \in Heights :
              LET Call(r) == CacheThrough(block_hash_by_height, height, r, r.cv.bh)
              IN Call(get_block_hash(ChainView, height))
        /\ \A hash \in Hashes :
              LET Header(r) == CacheThrough(header_by_hash, hash, r, r.cv.hdr)
                  Block(r) == CacheThrough(block_by_hash, hash, r, r.cv.blk)
              IN Header(get_header(ChainView, hash)) /\ Block(get_block(ChainView, hash))

Kept(cache, after) ==
    \A key \in DOMAIN cache : key \in DOMAIN after /\ after[key] = cache[key]

C26_CacheThrough ==
    /\ []CachesThrough
    /\ [][/\ Kept(block_hash_by_height, block_hash_by_height')
          /\ Kept(header_by_hash, header_by_hash')
          /\ Kept(block_by_hash, block_by_hash')]_vars

\* the upstream does not answer, and a GetData was served from the caches
C26_Witness ==
    /\ ~upstream_ok /\ handled = "getdata" /\ raised = ""
    /\ \E k \in DOMAIN sent :
          sent[k].command = "block" /\ sent[k].block.hash_int \in DOMAIN block_by_hash
    /\ block_hash_by_height # EmptyMap /\ header_by_hash # EmptyMap

(***************************************************************************)
(* C27: what get_active_height returned for a hash, None included, is      *)
(* cached: every later call for the hash returns it unchanged, without a   *)
(* query to the upstream.                                                  *)
(***************************************************************************)
AnswerIsCached(hash, r) ==
    /\ r.exc = ""
    /\ hash \in DOMAIN r.cv.ah /\ r.cv.ah[hash] = r.ret
    /\ hash \in DOMAIN active_height_by_hash =>
          (r.ret = active_height_by_hash[hash] /\ r.cv = ChainView)
    /\ get_active_height(r.cv, hash) = r

ActiveHeightCached ==
    pc = "running" =>
        \A hash \in peer_hashes \cup Hashes :
            AnswerIsCached(hash, get_active_height(ChainView, hash))

C27_NegativeCached ==
    /\ []ActiveHeightCached
    /\ [][Kept(active_height_by_hash, active_height_by_hash')]_vars

\* None is cached for a hash, and is the answer although the upstream now
\* has the block on its active chain
C27_Witness ==
    /\ pc = "running" /\ upstream_ok
    /\ \E hash \in DOMAIN active_height_by_hash :
          /\ active_height_by_hash[hash] = None
          /\ UpstreamHeightOf(hash_int_to_hex(hash)) # None
          /\ ActiveHeightOf(hash) = None

(***************************************************************************)
(* C28: tip_height is not cached: every call returns the upstream's best   *)
(* height of that moment, so that the calls before and after a change of   *)
(* the upstream tip return different values.                               *)
(***************************************************************************)
C28_TipNotCached ==
    /\ [](pc = "running" => tip_height = upstream_tip)
    /\ [][upstream_tip' # upstream_tip => tip_height' # tip_height]_vars

\* the upstream has grown past every height the chain view has cached
C28_Witness ==
    /\ pc = "running" /\ upstream_tip = MaxTip
    /\ DOMAIN block_hash_by_height # {}
    /\ \A h \in DOMAIN block_hash_by_height : h < upstream_tip
    /\ tip_height = MaxTip

(***************************************************************************)
(* C29: the loader returns the records of the directory sorted by          *)
(* (height, hash) ascending; the list of candidates of a parent hash holds *)
(* exactly the records with that parent, sorted by (height, hash); neither *)
(* depends on the order in which the files were met.                       *)
(***************************************************************************)
SortedByKey(recs) ==
    \A i, j \in DOMAIN recs : i < j => ~RecLess(recs[j], recs[i])

\* the record of a well-formed file
RecordOf(f) ==
    [height |-> DecToInt(MatchHeight(f.name)), hash_int |-> f.block.hash_int,
     prev_hash_int |-> f.block.hashPrevBlock]

Range(recs) == {recs[i] : i \in DOMAIN recs}

C29_CatalogOrdering ==
    pc = "running" =>
        /\ SortedByKey(stale_blocks)
        /\ Catalog = {RecordOf(f) : f \in {g \in dir : STALE_BLOCK_FILE_RE(g.name)}}
        /\ DOMAIN stale_by_parent = {r.prev_hash_int : r \in Catalog}
        /\ \A p \in DOMAIN stale_by_parent :
              /\ SortedByKey(stale_by_parent[p])
              /\ Range(stale_by_parent[p]) = {r \in Catalog : r.prev_hash_int = p}
        /\ \A recs \in Orderings(stale_blocks) :
              /\ SortRecs(recs) = stale_blocks
              /\ group_stale_blocks_by_parent(recs) = stale_by_parent

\* three records on one parent, the one of height 10 met first and listed last
C29_Witness ==
    /\ pc = "running" /\ {FileTen, FileA, FileB, FileD} \subseteq dir
    /\ Len(stale_blocks) = 4 /\ stale_blocks[4] = RecordOf(FileTen)
    /\ Len(stale_by_parent[ActiveHash(1)]) = 3
    /\ SortedPaths(dir)[1] = FileTen


(***************************************************************************)
(* C30: the catalog is immutable after construction: once the proxy runs,  *)
(* no GetHeaders or GetData step changes the stale records, the by-parent  *)
(* multimap or the by-hash index (nor the ceiling); of the proxy's own     *)
(* state only the served set and the ledger change.                        *)
(***************************************************************************)
CatalogState == <<stale_blocks, stale_by_parent, stale_by_hash, max_height>>

FileOnStale == StaleFile(2, 40, 35)

ForkScenario ==
    Scenario({FileG, FileA, FileOnStale}, 2, 3, 3, {35, 40, ActiveHash(1)})

InitFork == InitScenario(ForkScenario)

NextFork == Startup \/ GetHeaders \/ GetData

SpecFork == InitFork /\ [][NextFork]_vars

(***************************************************************************)
(* C31: with maxHeight = M configured, nothing at or beyond height M       *)
(* exists to the proxy: no Headers response holds a header at height M and *)
(* no Inv announces the block at height M.                                 *)
(* The handlers take M as the last height served: min(tip, M) bounds the   *)
(* walk and the announcement with <=.                                      *)
(***************************************************************************)
HeadersBelow(bound) ==
    \A i \in DOMAIN sent :
        sent[i].command = "headers" =>
            \A k \in DOMAIN sent[i].headers : SentHeight(sent[i].headers[k]) < bound

AnnouncedBelow(bound) ==
    \A i \in DOMAIN sent :
        sent[i].command = "inv" =>
            \A k \in DOMAIN sent[i].inv : CanonicalHeight(sent[i].inv[k].hash) < bound

C31_CeilingExclusive ==
    max_height # None => HeadersBelow(max_height) /\ AnnouncedBelow(max_height)

\* C31 as the code has it: with maxHeight = M configured, no Headers response
\* holds a header above height M and no Inv announces a block above height M;
\* the header and the block at height M itself are offered and announced.
C31_CeilingInclusive ==
    max_height # None => HeadersBelow(max_height + 1) /\ AnnouncedBelow(max_height + 1)

\* under a ceiling below the upstream tip, the block at the ceiling itself is
\* announced after the stale block under it was served
C31_Witness ==
    /\ max_height # None /\ upstream_tip > max_height
    /\ handled = "getdata"
    /\ \E i \in DOMAIN sent :
          /\ sent[i].command = "inv"
          /\ CanonicalHeight(sent[i].inv[1].hash) = max_height


(***************************************************************************)
(* C32: the proactive Inv is only a nudge.  In a run where no Inv reaches  *)
(* the node under sync, every stale record still has at most one ledger    *)
(* entry, its first entry still precedes that of the canonical block of    *)
(* its height, and once a stale block has been served a GetHeaders the     *)
(* node sends on its own from the block's parent is answered with the      *)
(* canonical headers from the stale height on, up to the effective tip or  *)
(* the next stale header pending.                                          *)
(* The handlers never learn whether an Inv arrived: the peer of Spec sends *)
(* whatever requests it likes, among them those of a node no Inv reached.  *)
(***************************************************************************)
\* no unserved candidate under the ceiling hangs on the active blocks of the
\* heights from .. to
NonePending(from, to) ==
    \A k \in from..to : _next_stale_candidate(ActiveHash(k), 0) = <<>>

\* what GetHeaders from the parent of the served record r answers
CanonicalAfterServed(r, res) ==
    (res.exc = "" /\ res.fork.hash = r.prev_hash_int) =>
        \A h \in (res.fork.height + 1)..EffectiveTip :
            NonePending(res.fork.height, h - 1) =>
                /\ Len(res.sent[1].headers) >= h - res.fork.height
                /\ res.sent[1].headers[h - res.fork.height] = UpstreamBlock(h)

HeadersResumeAfterServed ==
    pc = "running" =>
        \A r \in Catalog :
            r.hash_int \in served_stale_blocks =>
                CanonicalAfterServed(r, GetHeadersResult(<<r.prev_hash_int>>, 0))

C32_InvIsOnlyANudge ==
    /\ \A r \in Catalog : CountInLedger(<<"stale", r.height, r.hash_int>>) < 2
    /\ \A r \in Catalog :
          (InLedger("stale", r.hash_int) /\ InLedger("active", ActiveHash(r.height)))
              => FirstPos("active", ActiveHash(r.height)) > FirstPos("stale", r.hash_int)
    /\ HeadersResumeAfterServed


(***************************************************************************)
(* C33: every loaded record has height >= 1 and is the record of a file    *)
(* whose block hashes to the hash in its name; the loader never yields a   *)
(* record of height 0.                                                     *)
(* The pattern takes any run of digits as the height, and the loader does  *)
(* not look at its value.                                                  *)
(***************************************************************************)
\* hash(rawBlock) = hash, for the file a record was read from
HashMatchesName(f) == hash_int_to_hex(f.block.hash_int) = MatchHash(f.name)

C33_RecordInvariant ==
    pc = "running" =>
        \A r \in Catalog :
            /\ r.height >= 1
            /\ \E f \in dir :
                  STALE_BLOCK_FILE_RE(f.name) /\ RecordOf(f) = r /\ HashMatchesName(f)


(***************************************************************************)
(* C34: the canonical header is withheld while a stale sibling is pending. *)
(* With hashStop zero, when a Headers response holds the canonical header  *)
(* of a height, every catalog record under the ceiling whose parent is the *)
(* hash before it in the walk (the fork hash or the canonical hash of the  *)
(* height below) is in the served set; and a peer that repeats a GetHeaders *)
(* answered with a batch ending in a stale header is answered with that    *)
(* same batch as long as no GetData has served that stale block.           *)
(***************************************************************************)
\* the hash before position k of a batch in the walk
WalkParent(r, k) ==
    IF k = 1 THEN r.fork.hash ELSE r.sent[1].headers[k - 1].hash_int

UnderCeiling(rec) == max_height = None \/ rec.height <= max_height

SiblingsServed(r) ==
    (r.exc = "" /\ r.sent # <<>>) =>
        \A k \in DOMAIN r.sent[1].headers :
            ~IsStaleHeader(r.sent[1].headers[k]) =>
                \A rec \in Catalog :
                    (UnderCeiling(rec) /\ rec.prev_hash_int = WalkParent(r, k))
                        => rec.hash_int \in served_stale_blocks

CanonicalWithheld ==
    pc = "running" => \A loc \in Locators : SiblingsServed(GetHeadersResult(loc, 0))

(***************************************************************************)
(* A peer that repeats one GetHeaders request with hashStop zero.  After   *)
(* its first request target.wire holds the request it goes on sending and  *)
(* target.batch the answer to the last one.                                *)
(***************************************************************************)
Repeating(request, batch) == [on |-> TRUE, wire |-> <<request>>, batch |-> batch]

RepeatGetHeaders ==
    \E locator_hashes \in SeqsUpTo(peer_hashes, MaxLocator) :
        /\ target.on => target.wire = <<msg_getheaders(locator_hashes, 0)>>
        /\ on_getheaders(locator_hashes, 0)
        /\ target' = Repeating(msg_getheaders(locator_hashes, 0), sent')

\* two stale blocks on the active block of height 1; the peer names them and
\* the hash of the block the upstream has yet to connect
RepeatScenario == Scenario({FileA, FileB}, None, 2, MaxTip, {33, 34, ActiveHash(3)})

InitRepeat == InitScenario(RepeatScenario)

NextRepeat == Startup \/ RepeatGetHeaders \/ GetData \/ UpstreamGrow

SpecRepeat == InitRepeat /\ [][NextRepeat]_vars

\* a batch that ends in the header of a stale block
StaleTerminated(messages) ==
    /\ messages # <<>> /\ messages[1].headers # <<>>
    /\ IsStaleHeader(messages[1].headers[Len(messages[1].headers)])

PendingHash(messages) == messages[1].headers[Len(messages[1].headers)].hash_int

\* the step repeats the request, the last answer ended in a stale header and
\* that stale block is yet to be served: the answer is the same batch
SameBatchUntilServed ==
    (/\ target.on /\ target'.on /\ target'.wire = target.wire
     /\ handled' = "getheaders"
     /\ StaleTerminated(target.batch)
     /\ PendingHash(target.batch) \notin served_stale_blocks)
        => sent' = target.batch

C34_CanonicalWithheld == []CanonicalWithheld /\ [][SameBatchUntilServed]_vars

\* the request was repeated after the upstream grew and after a sibling was
\* served, and answered with canonical headers and the pending stale header
C34_Witness ==
    /\ pc = "running" /\ handled = "getheaders" /\ target.on
    /\ upstream_tip = MaxTip
    /\ sent = target.batch /\ StaleTerminated(sent)
    /\ Len(sent[1].headers) >= 2
    /\ PendingHash(sent) \notin served_stale_blocks
    /\ served_stale_blocks # {}


(***************************************************************************)
(* C35: GetHeaders is read-only on the session's bookkeeping: a step that  *)
(* handles a GetHeaders request leaves the ledger and the served set as    *)
(* they were, also when it offers a stale header; every step that changes  *)
(* either of them is the handling of a GetData.                            *)
(***************************************************************************)
Bookkeeping == <<served_blocks, served_stale_blocks>>

C35_GetHeadersReadOnly ==
    [][/\ handled' = "getheaders" => UNCHANGED Bookkeeping
       /\ Bookkeeping' # Bookkeeping => handled' = "getdata"]_vars

\* a GetHeaders has offered a stale header after a block was served, and the
\* stale block offered is not in the served set
C35_Witness ==
    /\ pc = "running" /\ handled = "getheaders"
    /\ sent # <<>> /\ sent[1].headers # <<>>
    /\ IsStaleHeader(sent[1].headers[Len(sent[1].headers)])
    /\ sent[1].headers[Len(sent[1].headers)].hash_int \notin served_stale_blocks
    /\ served_blocks # <<>>


(***************************************************************************)
(* C36: sibling stale blocks are offered one per batch in catalog order.   *)
(* When two or more unserved stale records under the ceiling share an      *)
(* active parent within the effective tip, every GetHeaders whose fork is  *)
(* that parent is answered with the header of the smallest of them by      *)
(* (height, hash) and nothing else, so that rounds of GetHeaders and        *)
(* GetData of the offered hash enter them in the ledger in that order      *)
(* before the canonical header of the height is offered.                   *)
(* A non-zero hashStop makes the filter skip every sibling but the one it  *)
(* names, or all of them.                                                  *)
(***************************************************************************)
PendingOn(parent) ==
    {r \in Catalog : /\ r.prev_hash_int = parent
                     /\ r.hash_int \notin served_stale_blocks
                     /\ UnderCeiling(r)}

Smallest(recs) == CHOOSE r \in recs : \A q \in recs : ~RecLess(q, r)

OffersSmallest(parent, hash_stop) ==
    (/\ Cardinality(PendingOn(parent)) >= 2
     /\ ActiveHeightOf(parent) # None
     /\ ActiveHeightOf(parent) + 1 <= CeilingTip)
        => GetHeadersResult(<<parent>>, hash_stop).sent
               = <<msg_headers(<<StaleBlock(Smallest(PendingOn(parent)))>>)>>

C36_SiblingsInOrder ==
    pc = "running" =>
        \A parent \in DOMAIN stale_by_parent, hash_stop \in Stops :
            OffersSmallest(parent, hash_stop)


(***************************************************************************)
(* C37: a stale header is injected only on an active parent.  Every stale  *)
(* header of a Headers response has as parent the fork hash or the         *)
(* canonical hash appended before it, a hash of the active chain; a        *)
(* catalog record whose parent is not on the active chain is in no Headers *)
(* response, while a GetData for its hash is answered with its block and   *)
(* enters it in the ledger.                                                *)
(***************************************************************************)
OnActiveChain(hash) == \E h \in 0..upstream_tip : ActiveHash(h) = hash

\* the stale headers of the answer r hang on the hash before them in the walk
StaleOnWalkParent(r) ==
    (r.exc = "" /\ r.sent # <<>>) =>
        \A k \in DOMAIN r.sent[1].headers :
            IsStaleHeader(r.sent[1].headers[k]) =>
                /\ r.sent[1].headers[k].hashPrevBlock = WalkParent(r, k)
                /\ OnActiveChain(WalkParent(r, k))

OffChainRecords == {rec \in Catalog : ~OnActiveChain(rec.prev_hash_int)}

NeverOffered(rec, r) ==
    \A i \in DOMAIN r.sent, k \in 1..Len(r.sent[1].headers) :
        r.sent[i].headers[k].hash_int # rec.hash_int

ServedOnRequest(rec, r) ==
    /\ r.exc = ""
    /\ r.sent # <<>> /\ r.sent[1] = msg_block(StaleBlock(rec))
    /\ r.ledger = Append(served_blocks, <<"stale", rec.height, rec.hash_int>>)

C37_StaleOnActiveParent ==
    pc = "running" =>
        /\ \A loc \in Locators, hash_stop \in Stops :
              /\ StaleOnWalkParent(GetHeadersResult(loc, hash_stop))
              /\ \A rec \in OffChainRecords :
                    NeverOffered(rec, GetHeadersResult(loc, hash_stop))
        /\ \A rec \in OffChainRecords :
              ServedOnRequest(rec, GetDataResult(<<BlockInv(rec.hash_int)>>))

\* a GetData has served the record that hangs on a stale block, which no
\* GetHeaders offers, while a stale header is on offer on the active block of
\* height 1
C37_Witness ==
    /\ pc = "running" /\ handled = "getdata"
    /\ \E rec \in OffChainRecords :
          /\ rec.prev_hash_int \in DOMAIN stale_by_hash
          /\ served_blocks # <<>>
          /\ served_blocks[Len(served_blocks)] = <<"stale", rec.height, rec.hash_int>>
          /\ sent = <<msg_block(StaleBlock(rec))>>
    /\ GetHeadersResult(<<ActiveHash(1)>>, 0).sent
           = <<msg_headers(<<StaleBlock(stale_by_hash[33])>>)>>


(***************************************************************************)
(* C38: header batch continuity.  In every non-empty Headers response the  *)
(* canonical headers are those of the canonical chain at the heights       *)
(* forkHeight + 1, forkHeight + 2, ... in this order without gap or        *)
(* repeat, and every header of the batch, canonical or stale, has as       *)
(* parent the hash of the header before it, the fork hash for the first.   *)
(***************************************************************************)
Continuous(r) ==
    (r.exc = "" /\ r.sent # <<>>) =>
        \A k \in DOMAIN r.sent[1].headers :
            /\ ~IsStaleHeader(r.sent[1].headers[k])
                   => r.sent[1].headers[k] = UpstreamBlock(r.fork.height + k)
            /\ r.sent[1].headers[k].hashPrevBlock = WalkParent(r, k)

C38_BatchContinuity ==
    pc = "running" =>
        \A loc \in Locators, hash_stop \in Stops :
            Continuous(GetHeadersResult(loc, hash_stop))

\* a batch from genesis: the canonical header of height 1, then a stale header
\* on it
C38_Witness ==
    /\ pc = "running" /\ handled = "getheaders" /\ raised = ""
    /\ fork.height = 0
    /\ Len(sent) = 1 /\ Len(sent[1].headers) = 2
    /\ sent[1].headers[1] = UpstreamBlock(1)
    /\ IsStaleHeader(sent[1].headers[2])
    /\ sent[1].headers[2].hashPrevBlock = ActiveHash(1)
    /\ \E loc \in Locators, hash_stop \in Stops :
          GetHeadersResult(loc, hash_stop).sent = sent

(***************************************************************************)
(* The reorg validation at shutdown.                                       *)
(***************************************************************************)
\* main has left its finally block with a debug log to validate against
Validated == pc = "exited" /\ args.target_debug_log

\* the hash of the block occurs in the events, and an event after its first
\* occurrence carries another hash at the block's height or above
ReorgEvidence(block) ==
    \E i \in DOMAIN update_tip_events :
        /\ update_tip_events[i].hash = block.hash
        /\ \A j \in 1..(i - 1) : update_tip_events[j].hash # block.hash
        /\ \E k \in (i + 1)..Len(update_tip_events) :
               /\ update_tip_events[k].hash # block.hash
               /\ update_tip_events[k].height >= block.height

Listed(list, block) == \E k \in DOMAIN list : list[k] = block

\* how many of missing_tip, missing_reorg and reorged-out hold the block
Verdicts(block) ==
    Cardinality({v \in {"missing_tip", "missing_reorg", "reorged_out"} :
                    \/ v = "missing_tip" /\ Listed(summary.missing_tip, block)
                    \/ v = "missing_reorg" /\ Listed(summary.missing_reorg, block)
                    \/ v = "reorged_out" /\ block.reorged_out})

ItemOf(block) == [height |-> block.height, hash |-> block.hash]

\* C39: the validator reports a served stale block as reorged out exactly
\* when its hash occurs in the UpdateTip events and some event after its
\* first occurrence has a different hash and a height at or above the stale
\* height; every served stale block has one entry in the report, which falls
\* in exactly one of missing_tip, missing_reorg and reorged-out; and the
\* counts satisfy connected_as_tip = reorged_out + |missing_reorg| and
\* served_stale = connected_as_tip + |missing_tip|.
C39_ReorgEvidenceRule ==
    Validated =>
        /\ Len(summary.details) = Len(served_stale)
        /\ {ItemOf(summary.details[k]) : k \in DOMAIN summary.details}
               = {served_stale[k] : k \in DOMAIN served_stale}
        /\ \A k \in DOMAIN summary.details :
               /\ summary.details[k].reorged_out <=> ReorgEvidence(summary.details[k])
               /\ Verdicts(summary.details[k]) = 1
        /\ summary.reorged_out
               = Cardinality({k \in DOMAIN summary.details : summary.details[k].reorged_out})
        /\ summary.connected_as_tip = summary.reorged_out + Len(summary.missing_reorg)
        /\ summary.served_stale = summary.connected_as_tip + Len(summary.missing_tip)
        /\ summary.served_stale = Len(served_stale)

\* two stale blocks were served; one became the tip and was replaced by a
\* different block of its own height, the other never became the tip
C39_Witness ==
    /\ Validated
    /\ Len(served_stale) = 2
    /\ \E k \in DOMAIN summary.details :
           /\ summary.details[k].reorged_out
           /\ summary.details[k].replaced_by.height = summary.details[k].height
    /\ Len(summary.missing_tip) = 1

\* the ledger positions of the first 'stale' entry of each hash
FirstStale ==
    {i \in DOMAIN served_blocks :
        /\ served_blocks[i][1] = "stale"
        /\ \A j \in 1..(i - 1) :
               served_blocks[j][1] = "stale" => served_blocks[j][3] # served_blocks[i][3]}

\* the ledger entry the k-th smallest position of FirstStale holds, as the
\* item main builds from it
FirstStaleItem(k) ==
    LET i == CHOOSE p \in FirstStale : Cardinality({q \in FirstStale : q < p}) = k - 1
    IN [height |-> served_blocks[i][2], hash |-> hash_int_to_hex(served_blocks[i][3])]

ValidationFailed ==
    /\ args.target_debug_log
    /\ summary.missing_tip # <<>> \/ summary.missing_reorg # <<>>

\* C40: at shutdown main passes the validator one item per distinct stale
\* hash of the ledger, in the order of first occurrence, ignoring 'active'
\* entries and repeated 'stale' entries; and it returns exit code 1 exactly
\* when missing_tip or missing_reorg is non-empty and --allow-missing-reorgs
\* is not set.
C40_ValidatorInput ==
    /\ Validated =>
           /\ Len(served_stale) = Cardinality(FirstStale)
           /\ \A k \in DOMAIN served_stale : served_stale[k] = FirstStaleItem(k)
           /\ summary.served_stale = Cardinality(FirstStale)
    /\ pc = "exited" =>
           /\ exit_code \in {0, 1}
           /\ exit_code = 1 <=> (ValidationFailed /\ ~args.allow_missing_reorgs)

\* the ledger holds a stale block twice; the validator got it once, found no
\* reorg evidence for it, and main returned 1
C40_Witness ==
    /\ Validated
    /\ Len(served_blocks) = 2
    /\ served_blocks[1] = served_blocks[2]
    /\ served_blocks[1][1] = "stale"
    /\ Len(served_stale) = 1
    /\ ~args.allow_missing_reorgs
    /\ exit_code = 1

====
